---- MODULE Spec2Model ----
(***************************************************************************)
(* Model of the slack-rs-api code generator (codegen/src/generator.rs), of  *)
(* the runtime behaviour of the code it emits (the per-method callable,    *)
(* the to_result facade, the error classifier, the parameter binder and    *)
(* the enum deserializer), of a run of the generator on a schema module,   *)
(* and of the hand-written client (src/lib.rs, src/api.rs).                *)
(*                                                                         *)
(* Rust strings whose contents matter (error codes, discriminator tags,    *)
(* variant names, parameter values) are sequences of one-character         *)
(* strings, so that prefixes, extensions and case variants exist.          *)
(***************************************************************************)
EXTENDS Naturals, Sequences, FiniteSets, TLC

VARIABLES pc, method, request, params, sendLog, sendRes, parsed, result,
          trace, probe,
          gpc, module, given, cursor, units, generated, panic, stack, visits

\* the state of one run of the generator
genVars == <<gpc, module, given, cursor, units, generated, panic, stack, visits>>

vars == <<pc, method, request, params, sendLog, sendRes, parsed, result,
          trace, probe, genVars>>

(***************************************************************************)
(* Bounds of the model.                                                    *)
(***************************************************************************)
\* longest discriminator string fed to the enum deserializer
MaxTagLen == 2
\* longest error-code string fed to the classifier and to to_result
MaxCodeLen == 2
\* largest value of an integer request field
MaxInt == 10
\* enums nested in variants of enums below the top-level response enum,
\* the message union not counted
MaxNest == 1
\* most methods of a schema module handed to the generator
MaxMethods == 2
\* most calls of Module::generate on one loaded schema module
MaxRuns == 2
\* most variants of the enums has_ok is applied to on its own
MaxVariants == 2
\* most fields of the flat objects to_string is applied to on its own
MaxFields == 3
\* errors of a method in the lists the description accessor is applied with
MaxErrors == 2

(***************************************************************************)
(* Strings.                                                                *)
(***************************************************************************)
Chars == {"a", "A", "_"}

RECURSIVE StringsUpTo(_)
StringsUpTo(n) ==
    IF n = 0 THEN {<<>>}
    ELSE LET shorter == StringsUpTo(n - 1)
         IN  shorter \cup {Append(s, c) : s \in shorter, c \in Chars}

IsUpper(c) == c = "A"
IsLower(c) == c = "a"
Lower(c) == IF c = "A" THEN "a" ELSE c
Upper(c) == IF c = "a" THEN "A" ELSE c

\* Inflector's to_snake_case, as called at generator.rs:508 and :519: lower
\* case throughout, words separated by "_", a new word starting at every
\* lower-to-upper boundary.
RECURSIVE SnakeFrom(_, _)
SnakeFrom(s, i) ==
    IF i > Len(s) THEN <<>>
    ELSE (IF IsUpper(s[i]) /\ i > 1 /\ IsLower(s[i - 1]) THEN <<"_">> ELSE <<>>)
         \o <<Lower(s[i])>> \o SnakeFrom(s, i + 1)

to_snake_case(s) == SnakeFrom(s, 1)

\* Inflector's to_pascal_case, as called at generator.rs:308, :320 and :332:
\* separators dropped, every word capitalised, the rest of the word lower
\* case.
RECURSIVE PascalFrom(_, _)
PascalFrom(s, i) ==
    IF i > Len(s) THEN <<>>
    ELSE IF s[i] = "_" THEN PascalFrom(s, i + 1)
    ELSE (IF i = 1 \/ s[i - 1] = "_" \/ (IsUpper(s[i]) /\ IsLower(s[i - 1]))
          THEN <<Upper(s[i])>> ELSE <<Lower(s[i])>>)
         \o PascalFrom(s, i + 1)

to_pascal_case(s) == PascalFrom(s, 1)

\* u32::to_string (generator.rs:378 and :386): the decimal digits.
Digit(d) == CASE d = 0 -> "0" [] d = 1 -> "1" [] d = 2 -> "2" [] d = 3 -> "3"
              [] d = 4 -> "4" [] d = 5 -> "5" [] d = 6 -> "6" [] d = 7 -> "7"
              [] d = 8 -> "8" [] d = 9 -> "9"

RECURSIVE to_string(_)
to_string(n) ==
    IF n < 10 THEN <<Digit(n)>>
    ELSE Append(to_string(n \div 10), Digit(n % 10))

(***************************************************************************)
(* The schema model (generator.rs:5-10, 38-46, 212-217, 340-347, 570-574   *)
(* and the PropType tree of json_schema).                                  *)
(***************************************************************************)
None == <<>>
Some(x) == <<x>>

Str == [kind |-> "Str"]
Bool == [kind |-> "Bool"]
Integer == [kind |-> "Integer"]
Optional(t) == [kind |-> "Optional", inner |-> t]
Arr(t) == [kind |-> "Arr", inner |-> t]
Map(t) == [kind |-> "Map", inner |-> t]

JsonObjectFieldInfo(name, rename, ty) ==
    [name |-> name, rename |-> rename, ty |-> ty]
JsonObject(name, fields) == [kind |-> "Obj", name |-> name, fields |-> fields]
JsonEnumVariant(enumName, name, inner) ==
    [name |-> name, qualified_name |-> <<enumName, name>>, inner |-> inner]
JsonEnum(name, variants) == [kind |-> "Enum", name |-> name, variants |-> variants]

\* an error of a method: its code and the text that documents it
ApiError(name) == [name |-> name, description |-> <<"about">> \o name]
Param(name, ty, optional) == [name |-> name, ty |-> ty, optional |-> optional]

OkField == JsonObjectFieldInfo("ok", None, Bool)
ErrorField == JsonObjectFieldInfo("error", None, Optional(Str))
TypeField == JsonObjectFieldInfo("ty", Some("type"), Str)
OptTypeField == JsonObjectFieldInfo("ty", Some("type"), Optional(Str))

\* The nested message union: the one enum discriminated by "subtype".
MessageEnum ==
    JsonEnum("Message",
        << JsonEnumVariant("Message", <<"A">>,
               JsonObject("MessageA", <<OkField, ErrorField>>)),
           JsonEnumVariant("Message", <<"A", "a">>,
               JsonObject("MessageAa", <<TypeField, OkField, ErrorField>>)) >>)

\* chat.postMessage: an Object that has-ok.
PostMessageResponse ==
    JsonObject("PostMessageResponse",
        << OkField, OptTypeField, ErrorField,
           JsonObjectFieldInfo("message", None, Optional(MessageEnum)) >>)

\* api.test: an Object without an ok field.
TestResponse ==
    JsonObject("TestResponse", <<ErrorField, OptTypeField>>)

\* im.info: a top-level Enum that has-ok; its second variant holds a nested
\* Enum, MaxNest levels deep, the innermost of them the message union.
RECURSIVE NestedEnum(_, _)
NestedEnum(name, n) ==
    JsonEnum(name,
        << JsonEnumVariant(name, <<"A">>,
               JsonObject(name \o "A", <<ErrorField, OkField>>)),
           JsonEnumVariant(name, <<"A", "a">>,
               IF n = 0 THEN MessageEnum ELSE NestedEnum(name \o "Aa", n - 1)) >>)

InfoResponse == NestedEnum("InfoResponse", MaxNest)

\* rtm.start: a top-level Enum that does not have-ok; two of its variants
\* share the wire tag "a".
StartResponse ==
    JsonEnum("StartResponse",
        << JsonEnumVariant("StartResponse", <<"A">>,
               JsonObject("StartA", <<OkField, ErrorField>>)),
           JsonEnumVariant("StartResponse", <<"a">>,
               JsonObject("StartLower", <<ErrorField, TypeField>>)),
           JsonEnumVariant("StartResponse", <<"a", "A">>, Str) >>)

Methods ==
    << [name |-> "chat.postMessage",
        params |-> << Param("channel", "string", FALSE),
                      Param("as_user", "boolean", TRUE),
                      Param("icon_emoji", "string", TRUE) >>,
        response |-> [schema |-> PostMessageResponse,
                      errors |-> <<ApiError(<<"a">>), ApiError(<<"a", "a">>)>>]],
       [name |-> "api.test",
        params |-> << Param("count", "integer", FALSE),
                      Param("latest", "timestamp", TRUE) >>,
        response |-> [schema |-> TestResponse,
                      errors |-> <<>>]],
       [name |-> "im.info",
        params |-> << Param("inclusive", "boolean", FALSE),
                      Param("page", "integer", TRUE) >>,
        response |-> [schema |-> InfoResponse,
                      errors |-> <<ApiError(<<"a", "a">>)>>]],
       [name |-> "rtm.start",
        params |-> << Param("user", "user_id", FALSE) >>,
        response |-> [schema |-> StartResponse,
                      errors |-> <<ApiError(<<"a", "A">>), ApiError(<<"_", "a">>)>>]] >>

MethodIds == DOMAIN Methods

(***************************************************************************)
(* has_ok (generator.rs:123-141).                                          *)
(***************************************************************************)
\* ObjHasOk taking the name in either case
ObjHasOk_AnyCase(o) == \E i \in DOMAIN o.fields : o.fields[i].name \in {"ok", "OK"}

ObjHasOk(o) == \E i \in DOMAIN o.fields : o.fields[i].name = "ok"

RECURSIVE EnumHasOk(_)
EnumHasOk(e) ==
    \A i \in DOMAIN e.variants :
        LET inner == e.variants[i].inner
        IN  CASE inner.kind = "Obj" -> ObjHasOk(inner)
              [] inner.kind = "Enum" -> EnumHasOk(inner)
              [] OTHER -> FALSE

has_ok(t) ==
    CASE t.kind = "Obj" -> ObjHasOk(t)
      [] t.kind = "Enum" -> EnumHasOk(t)
      [] OTHER -> FALSE

(***************************************************************************)
(* The generated error enum (generator.rs:250-337).                        *)
(***************************************************************************)
Declared(ident) == [tag |-> "Declared", arg |-> ident]
Unknown(s) == [tag |-> "Unknown", arg |-> s]
MalformedResponse == [tag |-> "MalformedResponse", arg |-> <<>>]
Client(e) == [tag |-> "Client", arg |-> e]

Ok(v) == <<"Ok", v>>
Err(e) == <<"Err", e>>
IsOk(r) == r[1] = "Ok"
IsErr(r) == r[1] = "Err"

\* impl From<ClientError> (generator.rs:263-267)
FromClientError(e) == Client(e)

\* MatchArms with the comparison ignoring case
RECURSIVE MatchArms_IgnoreCase(_, _, _)
MatchArms_IgnoreCase(errors, i, s) ==
    IF i > Len(errors) THEN Unknown(s)
    ELSE IF [k \in DOMAIN s |-> Lower(s[k])] =
            [k \in DOMAIN errors[i].name |-> Lower(errors[i].name[k])]
    THEN Declared(to_pascal_case(errors[i].name))
    ELSE MatchArms_IgnoreCase(errors, i + 1, s)

\* The arms of "match s" in declared order, then the wildcard arm
\* (generator.rs:269-276, arms built at 313-324).
RECURSIVE MatchArms(_, _, _)
MatchArms(errors, i, s) ==
    IF i > Len(errors) THEN Unknown(s)
    ELSE IF s = errors[i].name THEN Declared(to_pascal_case(errors[i].name))
    ELSE MatchArms(errors, i + 1, s)

FromStr(errors, s) == MatchArms(errors, 1, s)

\* ClientError's own Error::description
ClientError_description(e) == <<"client error">> \o e

\* the arms of the declared variants printing the text that documents the
\* error
RECURSIVE DescriptionArms_Docs(_, _, _)
DescriptionArms_Docs(errors, i, err) ==
    IF i > Len(errors)
    THEN CASE err.tag = "MalformedResponse" -> <<"Malformed response data from Slack.">>
           [] err.tag = "Unknown" -> err.arg
           [] err.tag = "Client" -> ClientError_description(err.arg)
    ELSE IF err = Declared(to_pascal_case(errors[i].name)) THEN errors[i].description
    ELSE DescriptionArms_Docs(errors, i + 1, err)

\* The arms of "match self" in fn description (generator.rs:285-292): those
\* of the declared variants in declared order (built at 325-336), each
\* yielding the error's code, then the three fixed arms.
RECURSIVE DescriptionArms(_, _, _)
DescriptionArms(errors, i, err) ==
    IF i > Len(errors)
    THEN CASE err.tag = "MalformedResponse" -> <<"Malformed response data from Slack.">>
           [] err.tag = "Unknown" -> err.arg
           [] err.tag = "Client" -> ClientError_description(err.arg)
    ELSE IF err = Declared(to_pascal_case(errors[i].name)) THEN errors[i].name
    ELSE DescriptionArms(errors, i + 1, err)

description(errors, err) == DescriptionArms(errors, 1, err)

\* fn cause (generator.rs:294-299)
cause(err) == IF err.tag = "Client" THEN Some(err.arg) ELSE None

(***************************************************************************)
(* Values of the generated types.                                          *)
(***************************************************************************)
ObjV(name, f) == [kind |-> "ObjV", name |-> name, f |-> f]
EnumV(qualified_name, inner) ==
    [kind |-> "EnumV", variant |-> qualified_name, inner |-> inner]

\* ObjToResult looking at the error field before the ok flag
ObjToResult_ErrorFirst(errors, v) ==
    IF v.f["error"] # None THEN Err(FromStr(errors, v.f["error"][1]))
    ELSE IF v.f["ok"] THEN Ok(v) ELSE Err(MalformedResponse)

\* ObjToResult taking a response without an error code for a success
ObjToResult_OkWhenNoError(errors, v) ==
    IF v.f["ok"] \/ v.f["error"] = None THEN Ok(v)
    ELSE Err(FromStr(errors, v.f["error"][1]))

\* impl ToResult for an Object (generator.rs:162-172)
ObjToResult(errors, v) ==
    IF v.f["ok"] THEN Ok(v)
    ELSE Err(IF v.f["error"] # None THEN FromStr(errors, v.f["error"][1])
             ELSE MalformedResponse)

VariantOf(e, v) ==
    CHOOSE i \in DOMAIN e.variants : e.variants[i].qualified_name = v.variant

RECURSIVE to_result(_, _, _)

\* to_result with every arm of the match wrapping into the first variant
to_result_FirstVariant(errors, t, v) ==
    IF t.kind = "Obj" THEN ObjToResult(errors, v)
    ELSE LET variant == t.variants[VariantOf(t, v)]
             r == to_result(errors, variant.inner, v.inner)
         IN  IF IsOk(r) THEN Ok(EnumV(t.variants[1].qualified_name, r[2])) ELSE r

\* impl ToResult for an Enum (generator.rs:184-190, arms from
\* generate_matches at 143-157 with the body of 195-197), the inner call
\* resolved to the inner shape's own impl (198-203).
to_result(errors, t, v) ==
    IF t.kind = "Obj" THEN ObjToResult(errors, v)
    ELSE LET variant == t.variants[VariantOf(t, v)]
             r == to_result(errors, variant.inner, v.inner)
         IN  IF IsOk(r) THEN Ok(EnumV(variant.qualified_name, r[2])) ELSE r

\* The types for which a to_result impl is emitted for a response whose
\* top-level shape is t (generator.rs:159-210, called from 220-229).
RECURSIVE FacadeTypes(_)
FacadeTypes(t) ==
    CASE t.kind = "Obj" -> IF ObjHasOk(t) THEN {t} ELSE {}
      [] t.kind = "Enum" ->
            IF EnumHasOk(t)
            THEN {t} \cup UNION {FacadeTypes(t.variants[i].inner) :
                                    i \in DOMAIN t.variants}
            ELSE {}
      [] OTHER -> {}

(***************************************************************************)
(* JSON payloads: objects over the keys "type", "subtype", "ok" and        *)
(* "error"; a key maps to JAbsent when the object does not hold it.        *)
(***************************************************************************)
JAbsent == [k |-> "absent", b |-> FALSE, s |-> <<>>]
JNull == [k |-> "null", b |-> FALSE, s |-> <<>>]
JBool(b) == [k |-> "bool", b |-> b, s |-> <<>>]
JStr(s) == [k |-> "str", b |-> FALSE, s |-> s]

\* serde_json::Value::get (generator.rs:484)
Get(payload, key) == IF key \in DOMAIN payload THEN payload[key] ELSE JAbsent

\* the failure conditions of deserialization
DeErr(cond, field, tag, known, msg) ==
    [cond |-> cond, field |-> field, tag |-> tag, known |-> known, msg |-> msg]
missing_field(field) == DeErr("missing_field", field, <<>>, <<>>, <<>>)
invalid_type == DeErr("invalid_type", "", <<>>, <<>>, <<>>)
unknown_variant(ty, known) == DeErr("unknown_variant", "", ty, known, <<>>)
custom(e) == DeErr("custom", "", <<>>, <<>>, <<e>>)

\* #[serde(rename = ...)] (generator.rs:429-436): the key a field is read from
WireKey(field) == IF field.rename # None THEN field.rename[1] ELSE field.name

\* One field of a derived Deserialize struct (generator.rs:421-441 and
\* 557-560): "ok" carries #[serde(default)], an Option field may be absent.
RECURSIVE FieldValue(_, _, _)
FieldValue(field, ty, jv) ==
    CASE ty.kind = "Optional" ->
            IF jv.k \in {"absent", "null"} THEN Ok(None)
            ELSE LET r == FieldValue(field, ty.inner, jv)
                 IN  IF IsOk(r) THEN Ok(Some(r[2])) ELSE r
      [] jv.k = "absent" ->
            IF field.name = "ok" THEN Ok(FALSE) ELSE Err(missing_field(WireKey(field)))
      [] ty.kind = "Bool" -> IF jv.k = "bool" THEN Ok(jv.b) ELSE Err(invalid_type)
      [] ty.kind = "Str" -> IF jv.k = "str" THEN Ok(jv.s) ELSE Err(invalid_type)
      [] OTHER -> Err(invalid_type)

ParseObj(o, payload) ==
    LET r(i) == FieldValue(o.fields[i], o.fields[i].ty, Get(payload, WireKey(o.fields[i])))
        bad == {i \in DOMAIN o.fields : IsErr(r(i))}
        at(name) == CHOOSE i \in DOMAIN o.fields : o.fields[i].name = name
    IN  IF bad # {}
        THEN r(CHOOSE i \in bad : \A j \in bad : i <= j)
        ELSE Ok(ObjV(o.name, [name \in {o.fields[i].name : i \in DOMAIN o.fields} |->
                                  r(at(name))[2]]))

(***************************************************************************)
(* The generated enum deserializer (generator.rs:453-529).                 *)
(***************************************************************************)
\* generator.rs:455-460
variant_field(e) == IF e.name = "Message" THEN "subtype" ELSE "type"

\* const VARIANTS (generator.rs:481, built at 506-510)
VARIANTS(e) == [i \in DOMAIN e.variants |-> to_snake_case(e.variants[i].name)]

RECURSIVE from_value(_, _)
RECURSIVE VariantMatches(_, _, _, _)

\* VariantMatches going on to the later arms when the payload does not
\* parse as the matched variant's inner type
RECURSIVE VariantMatches_FallThrough(_, _, _, _)
VariantMatches_FallThrough(e, i, ty, payload) ==
    IF i > Len(e.variants) THEN Err(unknown_variant(ty, VARIANTS(e)))
    ELSE IF ty = to_snake_case(e.variants[i].name)
            /\ IsOk(from_value(e.variants[i].inner, payload))
    THEN Ok(EnumV(e.variants[i].qualified_name,
                  from_value(e.variants[i].inner, payload)[2]))
    ELSE VariantMatches_FallThrough(e, i + 1, ty, payload)

\* VariantMatches comparing the tag in snake case, so ignoring its case
RECURSIVE VariantMatches_SnakeTag(_, _, _, _)
VariantMatches_SnakeTag(e, i, ty, payload) ==
    IF i > Len(e.variants) THEN Err(unknown_variant(ty, VARIANTS(e)))
    ELSE IF to_snake_case(ty) = to_snake_case(e.variants[i].name)
    THEN LET r == from_value(e.variants[i].inner, payload)
         IN  IF IsOk(r) THEN Ok(EnumV(e.variants[i].qualified_name, r[2]))
             ELSE Err(custom(r[2]))
    ELSE VariantMatches_SnakeTag(e, i + 1, ty, payload)

\* the arms of "match ty" in declared order, then the wildcard arm
\* (generator.rs:486-489, arms built at 511-524)
VariantMatches(e, i, ty, payload) ==
    IF i > Len(e.variants) THEN Err(unknown_variant(ty, VARIANTS(e)))
    ELSE IF ty = to_snake_case(e.variants[i].name)
    THEN LET r == from_value(e.variants[i].inner, payload)
         IN  IF IsOk(r) THEN Ok(EnumV(e.variants[i].qualified_name, r[2]))
             ELSE Err(custom(r[2]))
    ELSE VariantMatches(e, i + 1, ty, payload)

\* deserialize taking the first variant when the discriminator is absent
deserialize_DefaultVariant(e, payload) ==
    LET ty_val == Get(payload, variant_field(e))
    IN  IF ty_val.k # "absent"
        THEN IF ty_val.k = "str"
             THEN VariantMatches(e, 1, ty_val.s, payload)
             ELSE Err(invalid_type)
        ELSE VariantMatches(e, 1, to_snake_case(e.variants[1].name), payload)

\* fn deserialize (generator.rs:483-495)
deserialize(e, payload) ==
    LET ty_val == Get(payload, variant_field(e))
    IN  IF ty_val.k # "absent"
        THEN IF ty_val.k = "str"
             THEN VariantMatches(e, 1, ty_val.s, payload)
             ELSE Err(invalid_type)
        ELSE Err(missing_field("type"))

\* serde_json::from_value::<T> of a payload object, T the Rust type of shape t
from_value(t, payload) ==
    CASE t.kind = "Obj" -> ParseObj(t, payload)
      [] t.kind = "Enum" -> deserialize(t, payload)
      [] t.kind = "Optional" ->
            LET r == from_value(t.inner, payload)
            IN  IF IsOk(r) THEN Ok(Some(r[2])) ELSE r
      [] OTHER -> Err(invalid_type)

(***************************************************************************)
(* The parameter binder (generator.rs:349-419).                            *)
(***************************************************************************)
\* Param::get_rust_type (generator.rs:407-418)
get_rust_type(p) ==
    LET ty == CASE p.ty = "boolean" -> "bool"
                [] p.ty = "integer" -> "u32"
                [] OTHER -> "String"
    IN  IF p.optional THEN "Option<" \o ty \o ">" ELSE ty

\* HashMap::insert
Insert(map, k, v) == [x \in (DOMAIN map) \cup {k} |-> IF x = k THEN v ELSE map[x]]

\* BoolString writing the words, as hand-written callers of the API do
BoolString_Words(b) ==
    IF b THEN <<"t", "r", "u", "e">> ELSE <<"f", "a", "l", "s", "e">>

\* the text of "if b { "1".to_owned() } else { "0".to_owned() }"
\* (generator.rs:364, 371)
BoolString(b) == IF b THEN <<"1">> ELSE <<"0">>

\* get_insertion sending "0" for an absent optional boolean
get_insertion_AbsentIsFalse(p, req, map) ==
    LET field == req[p.name].val
    IN  CASE p.ty = "boolean" /\ p.optional ->
                Insert(map, p.name, IF field # None THEN BoolString(field[1]) ELSE <<"0">>)
          [] p.ty = "boolean" /\ ~p.optional ->
                Insert(map, p.name, BoolString(field))
          [] p.ty = "integer" /\ p.optional ->
                IF field # None THEN Insert(map, p.name, to_string(field[1])) ELSE map
          [] p.ty = "integer" /\ ~p.optional ->
                Insert(map, p.name, to_string(field))
          [] p.ty \notin {"boolean", "integer"} /\ p.optional ->
                IF field # None THEN Insert(map, p.name, field[1]) ELSE map
          [] OTHER -> Insert(map, p.name, field)

\* Param::get_insertion (generator.rs:359-405): the statement's effect on
\* the map
get_insertion(p, req, map) ==
    LET field == req[p.name].val
    IN  CASE p.ty = "boolean" /\ p.optional ->
                IF field # None THEN Insert(map, p.name, BoolString(field[1])) ELSE map
          [] p.ty = "boolean" /\ ~p.optional ->
                Insert(map, p.name, BoolString(field))
          [] p.ty = "integer" /\ p.optional ->
                IF field # None THEN Insert(map, p.name, to_string(field[1])) ELSE map
          [] p.ty = "integer" /\ ~p.optional ->
                Insert(map, p.name, to_string(field))
          [] p.ty \notin {"boolean", "integer"} /\ p.optional ->
                IF field # None THEN Insert(map, p.name, field[1]) ELSE map
          [] OTHER -> Insert(map, p.name, field)

\* the insertions of all parameters, in declared order (generator.rs:106)
RECURSIVE param_insertions(_, _, _, _)
param_insertions(ps, i, req, map) ==
    IF i > Len(ps) THEN map
    ELSE param_insertions(ps, i + 1, req, get_insertion(ps[i], req, map))

(***************************************************************************)
(* Input domains.                                                          *)
(***************************************************************************)
EmptyMap == [x \in {} |-> <<>>]

\* values of String request fields and of string data fields
DataStrings == {<<"a">>, <<"A", "_">>}

\* the values of a Rust type of the request struct
RECURSIVE RustValues(_)
RustValues(ty) ==
    CASE ty = "bool" -> BOOLEAN
      [] ty = "u32" -> 0..MaxInt
      [] ty = "String" -> DataStrings
      [] ty = "Option<bool>" -> {None} \cup {Some(x) : x \in RustValues("bool")}
      [] ty = "Option<u32>" -> {None} \cup {Some(x) : x \in RustValues("u32")}
      [] ty = "Option<String>" -> {None} \cup {Some(x) : x \in RustValues("String")}

\* the values of a field of the request struct (generator.rs:111-120,
\* 350-357): its type is get_rust_type
RequestFieldValues(p) ==
    {[ty |-> get_rust_type(p), val |-> x] : x \in RustValues(get_rust_type(p))}

RECURSIVE RequestsFrom(_, _)
RequestsFrom(ps, i) ==
    IF i > Len(ps) THEN {EmptyMap}
    ELSE {Insert(r, ps[i].name, x) :
            r \in RequestsFrom(ps, i + 1), x \in RequestFieldValues(ps[i])}

Requests(m) == RequestsFrom(Methods[m].params, 1)

\* the transport's answers: an error, text that is no JSON, or a JSON object
ClientErrors == {<<"timeout">>, <<"refused">>}
Garbage == [json |-> FALSE, payload |-> EmptyMap]
Json(payload) == [json |-> TRUE, payload |-> payload]

OkValues == {JAbsent, JNull, JBool(TRUE), JBool(FALSE)}
Discriminators(tags) == {JAbsent, JNull} \cup {JStr(t) : t \in tags}

WireTags == {<<"a">>, <<"a", "a">>, <<"A">>}
WireCodes == {<<"a">>, <<"A">>}
WirePayloads ==
    [type : Discriminators(WireTags), subtype : Discriminators(WireTags),
     ok : OkValues, error : {JAbsent} \cup {JStr(c) : c \in WireCodes}]
WireTexts == {Garbage} \cup {Json(p) : p \in WirePayloads}

\* the payloads fed to the enum deserializer on its own
Payloads ==
    [type : Discriminators(StringsUpTo(MaxTagLen)),
     subtype : Discriminators(StringsUpTo(MaxTagLen)),
     ok : OkValues, error : {JAbsent, JNull, JStr(<<"a">>)}]

\* the values of the generated types
RECURSIVE FieldValues(_, _)
FieldValues(field, ty) ==
    CASE ty.kind = "Bool" -> BOOLEAN
      [] ty.kind = "Str" ->
            IF field.name = "error" THEN StringsUpTo(MaxCodeLen) ELSE DataStrings
      [] ty.kind = "Optional" /\ ty.inner.kind \in {"Bool", "Str"} ->
            {None} \cup {Some(x) : x \in FieldValues(field, ty.inner)}
      [] OTHER -> {None}

RECURSIVE ObjValuesFrom(_, _)
ObjValuesFrom(fields, i) ==
    IF i > Len(fields) THEN {EmptyMap}
    ELSE {Insert(f, fields[i].name, x) :
            f \in ObjValuesFrom(fields, i + 1),
            x \in FieldValues(fields[i], fields[i].ty)}

RECURSIVE Values(_)
Values(t) ==
    CASE t.kind = "Obj" -> {ObjV(t.name, f) : f \in ObjValuesFrom(t.fields, 1)}
      [] t.kind = "Enum" ->
            UNION {{EnumV(t.variants[i].qualified_name, x) :
                      x \in Values(t.variants[i].inner)} : i \in DOMAIN t.variants}
      [] OTHER -> DataStrings

\* every Enum of a shape, itself included
RECURSIVE EnumsIn(_)
EnumsIn(t) ==
    CASE t.kind = "Obj" -> UNION {EnumsIn(t.fields[i].ty) : i \in DOMAIN t.fields}
      [] t.kind = "Enum" ->
            {t} \cup UNION {EnumsIn(t.variants[i].inner) : i \in DOMAIN t.variants}
      [] t.kind \in {"Optional", "Arr", "Map"} -> EnumsIn(t.inner)
      [] OTHER -> {}

Enums == UNION {EnumsIn(Methods[m].response.schema) : m \in MethodIds}

(***************************************************************************)
(* The generator (generator.rs:12-31, 48-109, 159-244, 421-568).  Emitted  *)
(* text is a sequence of items, one per declaration, impl or function, in  *)
(* the order in which the text holds them.                                 *)
(***************************************************************************)
\* a function of the generator either returns a value or panics
NoMsg == [text |-> "", args |-> <<>>]
Returns(v) == [panicked |-> FALSE, msg |-> NoMsg, val |-> v]
\* a panic that lets the function return an empty text instead
Panic_ReturnsNothing(text, args) == Returns(<<>>)

Panic(text, args) ==
    [panicked |-> TRUE, msg |-> [text |-> text, args |-> args], val |-> <<>>]

\* the one-character strings of s joined into one string
RECURSIVE Text(_)
Text(s) == IF s = <<>> THEN "" ELSE Head(s) \o Text(Tail(s))

\* the values of v.iter().flat_map(f): the vectors f yields, concatenated
RECURSIVE Flatten(_)
Flatten(vs) == IF vs = <<>> THEN <<>> ELSE Head(vs) \o Flatten(Tail(vs))

\* self.name.split('.').last().unwrap() (generator.rs:50-51)
LastSegment(name) ==
    LET dots == {i \in DOMAIN name : name[i] = "."}
        last == IF dots = {} THEN 0 ELSE CHOOSE i \in dots : \A j \in dots : j <= i
    IN  SubSeq(name, last + 1, Len(name))

\* String's Ord, byte by byte, on the field names of the schemas
Bytes(name) ==
    CASE name = "OK" -> <<79, 75>>
      [] name = "args" -> <<97, 114, 103, 115>>
      [] name = "error" -> <<101, 114, 114, 111, 114>>
      [] name = "message" -> <<109, 101, 115, 115, 97, 103, 101>>
      [] name = "ok" -> <<111, 107>>
      [] name = "ty" -> <<116, 121>>

RECURSIVE BytesLeq(_, _)
BytesLeq(a, b) ==
    IF a = <<>> THEN TRUE
    ELSE IF b = <<>> THEN FALSE
    ELSE IF Head(a) # Head(b) THEN Head(a) < Head(b)
    ELSE BytesLeq(Tail(a), Tail(b))

NameLeq(a, b) == BytesLeq(Bytes(a), Bytes(b))

\* JsonObjectFieldInfo::to_string (generator.rs:421-441); ty stands for the
\* text self.ty.to_rs_type() of json_schema
JsonObjectFieldInfo_to_string(f) ==
    [rename |-> f.rename,
     prefix |-> IF f.name = "ok" THEN "#[serde(default)]"
                ELSE IF f.name # "error" /\ f.name # "ok" THEN "pub" ELSE "",
     name |-> f.name,
     ty |-> f.ty]

\* JsonEnumVariant::to_string (generator.rs:443-451)
JsonEnumVariant_to_string(v) == [name |-> v.name, inner |-> v.inner]

\* sort_by_key leaving the fields as declared
sort_by_key_Declared(fields) == fields

\* the place of f in a sorted vector: behind every field whose name is not
\* greater than its own
RECURSIVE InsertSorted(_, _)
InsertSorted(sorted, f) ==
    IF sorted = <<>> THEN <<f>>
    ELSE IF NameLeq(Head(sorted).name, f.name)
    THEN <<Head(sorted)>> \o InsertSorted(Tail(sorted), f)
    ELSE <<f>> \o sorted

\* fields.sort_by_key(|f| f.name.clone()) (generator.rs:550): a stable sort
RECURSIVE SortFrom(_, _)
SortFrom(fields, n) ==
    IF n = 0 THEN <<>> ELSE InsertSorted(SortFrom(fields, n - 1), fields[n])

sort_by_key(fields) == SortFrom(fields, Len(fields))

RECURSIVE obj_recur(_)
RECURSIVE JsonObject_to_string(_)
RECURSIVE JsonEnum_to_code(_)

\* obj_recur descending into the payload of a wrapper only when it is an
\* Object
obj_recur_ObjectsOnly(prop) ==
    CASE prop.kind = "Obj" -> <<JsonObject_to_string(prop)>>
      [] prop.kind \in {"Arr", "Map", "Optional"} ->
            IF prop.inner.kind = "Obj" THEN obj_recur(prop.inner) ELSE <<>>
      [] prop.kind = "Enum" -> <<JsonEnum_to_code(prop)>>
      [] OTHER -> <<>>

\* obj_recur (generator.rs:531-540): the texts of the declarations a
\* property brings with it
obj_recur(prop) ==
    CASE prop.kind = "Obj" -> <<JsonObject_to_string(prop)>>
      [] prop.kind \in {"Arr", "Map", "Optional"} -> obj_recur(prop.inner)
      [] prop.kind = "Enum" -> <<JsonEnum_to_code(prop)>>
      [] OTHER -> <<>>

\* JsonObject::to_string (generator.rs:542-568): the struct, its fields
\* sorted on a clone, then the declarations nested in its fields in the
\* declared order of the fields
JsonObject_to_string(o) ==
    LET subobjs == Flatten([i \in DOMAIN o.fields |-> obj_recur(o.fields[i].ty)])
        fields == sort_by_key(o.fields)
    IN  << [item |-> "struct", derive |-> "Clone, Debug, Deserialize", name |-> o.name,
            fields |-> [i \in DOMAIN fields |-> JsonObjectFieldInfo_to_string(fields[i])]] >>
        \o Flatten(subobjs)

\* JsonEnum::to_code (generator.rs:453-529): the enum, its Deserialize impl,
\* then the declarations nested in its variants
JsonEnum_to_code(e) ==
    LET subobjs == Flatten([i \in DOMAIN e.variants |-> obj_recur(e.variants[i].inner)])
    IN  << [item |-> "enum", name |-> e.name,
            variants |-> [i \in DOMAIN e.variants |->
                             JsonEnumVariant_to_string(e.variants[i])]],
           [item |-> "impl Deserialize", name |-> e.name,
            VARIANTS |-> VARIANTS(e),
            variant_field |-> variant_field(e),
            variant_matches |->
                [i \in DOMAIN e.variants |->
                    [type_name |-> to_snake_case(e.variants[i].name),
                     variant_type |-> e.variants[i].inner,
                     variant_name |-> e.variants[i].qualified_name]],
            missing_field |-> "type"] >>
        \o Flatten(subobjs)

\* get_obj_to_response_impl that never yields an impl
get_obj_to_response_impl_Never(obj, error_type) == None

\* get_obj_to_response_impl yielding an impl only for an Object that declares
\* the two fields the impl reads
get_obj_to_response_impl_BothFields(obj, error_type) ==
    IF ObjHasOk(obj) /\ \E i \in DOMAIN obj.fields : obj.fields[i].name = "error"
    THEN Some(<< [item |-> "impl ToResult", name |-> obj.name,
                  error_ty |-> error_type, reads |-> <<"ok", "error">>,
                  matches |-> <<>>] >>)
    ELSE None

\* get_obj_to_response_impl (generator.rs:159-179)
get_obj_to_response_impl(obj, error_type) ==
    IF ObjHasOk(obj)
    THEN Some(<< [item |-> "impl ToResult", name |-> obj.name,
                  error_ty |-> error_type, reads |-> <<"ok", "error">>,
                  matches |-> <<>>] >>)
    ELSE None

\* get_enum_to_response_impl (generator.rs:181-210): the impl of the enum,
\* then the impls of its variants' payloads; the first variant whose payload
\* yields no impl stops the generator
RECURSIVE get_enum_to_response_impl(_, _)
get_enum_to_response_impl(enm, error_type) ==
    LET inner_impl(v) ==
            CASE v.inner.kind = "Obj" ->
                    LET r == get_obj_to_response_impl(v.inner, error_type)
                    IN  IF r = None
                        THEN Panic("Top-level enum inner object did not have \"ok\" field.", <<>>)
                        ELSE Returns(r[1])
              [] v.inner.kind = "Enum" ->
                    LET r == get_enum_to_response_impl(v.inner, error_type)
                    IN  IF r.panicked THEN r
                        ELSE IF r.val = None
                        THEN Panic("Top-level enum inner variant did not have \"ok\" field.", <<>>)
                        ELSE Returns(r.val[1])
              [] OTHER ->
                    Panic("Top-level enum is does not contain a type that can have an \"ok\" field.", <<>>)
    IN  IF EnumHasOk(enm)
        THEN LET inner_impls == [i \in DOMAIN enm.variants |-> inner_impl(enm.variants[i])]
                 bad == {i \in DOMAIN enm.variants : inner_impls[i].panicked}
             IN  IF bad # {}
                 THEN inner_impls[CHOOSE i \in bad : \A j \in bad : i <= j]
                 ELSE Returns(Some(
                        << [item |-> "impl ToResult", name |-> enm.name,
                            error_ty |-> error_type, reads |-> <<>>,
                            matches |-> [i \in DOMAIN enm.variants |->
                                            enm.variants[i].qualified_name]] >>
                        \o Flatten([i \in DOMAIN enm.variants |-> inner_impls[i].val])))
        ELSE Returns(None)

\* Response::get_error_enum (generator.rs:246-337)
get_error_enum(response, error_ty) ==
    << [item |-> "error enum", name |-> error_ty,
        variants |-> [i \in DOMAIN response.errors |->
                         to_pascal_case(response.errors[i].name)]
                     \o << <<"MalformedResponse">>, <<"Unknown">>, <<"Client">> >>,
        matches |-> [i \in DOMAIN response.errors |->
                        [str_name |-> response.errors[i].name,
                         ty_name |-> to_pascal_case(response.errors[i].name)]]] >>

\* PropType::from_schema(&self.schema, ty_name): the shape of the schema,
\* its top-level type named ty_name
from_schema(schema, ty_name) ==
    CASE schema.kind = "Obj" -> [schema EXCEPT !.name = ty_name]
      [] schema.kind = "Enum" ->
            [schema EXCEPT !.name = ty_name,
                           !.variants = [i \in DOMAIN schema.variants |->
                               [schema.variants[i] EXCEPT
                                   !.qualified_name = <<ty_name, schema.variants[i].name>>]]]
      [] OTHER -> schema

\* Response::get_response_type (generator.rs:246-248)
get_response_type(response, ty_name) == from_schema(response.schema, ty_name)

\* Response::generate (generator.rs:220-244)
Response_generate(response, ty_name, error_ty) ==
    LET t == from_schema(response.schema, ty_name)
        errors == get_error_enum(response, error_ty)
    IN  CASE t.kind = "Obj" ->
                LET to_result_impl == get_obj_to_response_impl(t, error_ty)
                IN  Returns(JsonObject_to_string(t)
                            \o (IF to_result_impl = None THEN <<>> ELSE to_result_impl[1])
                            \o errors)
          [] t.kind = "Enum" ->
                LET to_result_impl == get_enum_to_response_impl(t, error_ty)
                IN  IF to_result_impl.panicked THEN to_result_impl
                    ELSE Returns(JsonEnum_to_code(t)
                                 \o (IF to_result_impl.val = None THEN <<>>
                                     ELSE to_result_impl.val[1])
                                 \o errors)
          [] OTHER ->
                Panic("Top level response schema for {} is not an object or enum. {:?}",
                      <<ty_name, response.schema>>)

\* Method::get_request_struct (generator.rs:111-120) with Param::generate
\* (350-357)
get_request_struct(m, ty_name) ==
    [item |-> "struct", derive |-> "Clone, Default, Debug", name |-> ty_name,
     fields |-> [i \in DOMAIN m.params |->
                    [rename |-> None, prefix |-> "pub", name |-> m.params[i].name,
                     ty |-> get_rust_type(m.params[i])]]]

\* Method::generate (generator.rs:49-109)
Method_generate(m) ==
    LET fn_name == Text(to_snake_case(LastSegment(m.name)))
        type_prefix == Text(to_pascal_case(LastSegment(m.name)))
        request_struct_name == type_prefix \o "Request"
        response_struct_name == type_prefix \o "Response"
        error_enum_name == type_prefix \o "Error"
        response == Response_generate(m.response, response_struct_name, error_enum_name)
        response_type == get_response_type(m.response, response_struct_name)
        send_call(to_result_stage) ==
            [name |-> m.name, response_type |-> response_struct_name,
             error_type |-> error_enum_name, to_result |-> to_result_stage]
        base_call ==
            CASE response_type.kind = "Obj" -> Returns(send_call(ObjHasOk(response_type)))
              [] response_type.kind = "Enum" -> Returns(send_call(EnumHasOk(response_type)))
              [] OTHER -> Panic("Top-level response for {} is not an object or enum.",
                                <<fn_name>>)
    IN  IF response.panicked THEN response
        ELSE IF base_call.panicked THEN base_call
        ELSE Returns(
               << [item |-> "fn", method_name |-> fn_name,
                   request_type |-> request_struct_name,
                   response_type |-> response_struct_name,
                   error_type |-> error_enum_name,
                   param_insertions |-> [i \in DOMAIN m.params |-> m.params[i].name],
                   send_call |-> base_call.val],
                  get_request_struct(m, request_struct_name) >>
               \o response.val)

(***************************************************************************)
(* The calls of the generator's functions.  An activation is a function    *)
(* with its argument; Calls lists, in the order of execution, the          *)
(* activations an activation starts itself, a panic! or a failing expect   *)
(* among them at the place where it fires.                                 *)
(***************************************************************************)
Frame(fn, arg) == [fn |-> fn, arg |-> arg]

PanicFrame(text) == Frame("panic!", [kind |-> "panic", text |-> text])

\* JsonEnum::has_ok (generator.rs:133-141): all() asks the variants in order
\* and stops behind the first that yields false; JsonObject::has_ok
\* (127-131) looks at its own fields only
has_ok_calls(t) ==
    IF t.kind # "Enum" THEN <<>>
    ELSE LET inner(i) == t.variants[i].inner
             stops == {i \in DOMAIN t.variants : ~has_ok(inner(i))}
             last == IF stops = {} THEN Len(t.variants)
                     ELSE CHOOSE i \in stops : \A j \in stops : i <= j
         IN  Flatten([i \in 1..last |->
                        IF inner(i).kind \in {"Obj", "Enum"}
                        THEN <<Frame("has_ok", inner(i))>> ELSE <<>>])

\* obj_recur calling itself on the wrapper it was given
obj_recur_calls_Same(prop) ==
    CASE prop.kind = "Obj" -> <<Frame("to_string", prop)>>
      [] prop.kind \in {"Arr", "Map", "Optional"} -> <<Frame("obj_recur", prop)>>
      [] prop.kind = "Enum" -> <<Frame("to_code", prop)>>
      [] OTHER -> <<>>

\* obj_recur (generator.rs:531-540)
obj_recur_calls(prop) ==
    CASE prop.kind = "Obj" -> <<Frame("to_string", prop)>>
      [] prop.kind \in {"Arr", "Map", "Optional"} -> <<Frame("obj_recur", prop.inner)>>
      [] prop.kind = "Enum" -> <<Frame("to_code", prop)>>
      [] OTHER -> <<>>

\* JsonObject::to_string (generator.rs:544-547)
to_string_calls(o) == [i \in DOMAIN o.fields |-> Frame("obj_recur", o.fields[i].ty)]

\* JsonEnum::to_code (generator.rs:462-466)
to_code_calls(e) == [i \in DOMAIN e.variants |-> Frame("obj_recur", e.variants[i].inner)]

\* get_enum_to_response_impl (generator.rs:182, 198-205)
get_enum_to_response_impl_calls(enm) ==
    LET inner_impl(v) ==
            CASE v.inner.kind = "Obj" ->
                    <<Frame("get_obj_to_response_impl", v.inner)>>
                    \o (IF get_obj_to_response_impl(v.inner, "") = None
                        THEN <<PanicFrame("Top-level enum inner object did not have \"ok\" field.")>>
                        ELSE <<>>)
              [] v.inner.kind = "Enum" ->
                    LET r == get_enum_to_response_impl(v.inner, "")
                    IN  <<Frame("get_enum_to_response_impl", v.inner)>>
                        \o (IF ~r.panicked /\ r.val = None
                            THEN <<PanicFrame("Top-level enum inner variant did not have \"ok\" field.")>>
                            ELSE <<>>)
              [] OTHER ->
                    <<PanicFrame("Top-level enum is does not contain a type that can have an \"ok\" field.")>>
    IN  <<Frame("has_ok", enm)>>
        \o (IF EnumHasOk(enm)
            THEN Flatten([i \in DOMAIN enm.variants |-> inner_impl(enm.variants[i])])
            ELSE <<>>)

\* Response::generate (generator.rs:221-235) on the shape from_schema yields
Response_generate_calls(t) ==
    CASE t.kind = "Obj" -> <<Frame("get_obj_to_response_impl", t), Frame("to_string", t)>>
      [] t.kind = "Enum" -> <<Frame("get_enum_to_response_impl", t), Frame("to_code", t)>>
      [] OTHER ->
            <<PanicFrame("Top level response schema for {} is not an object or enum. {:?}")>>

\* the shape Method::generate works on (generator.rs:53-56)
ShapeOf(m) ==
    get_response_type(m.response,
                      Text(to_pascal_case(LastSegment(m.name))) \o "Response")

\* Method::generate (generator.rs:55-56, 70-74)
Method_generate_calls(m) ==
    LET response_type == ShapeOf(m)
    IN  <<Frame("Response::generate", response_type)>>
        \o (IF response_type.kind \in {"Obj", "Enum"}
            THEN <<Frame("has_ok", response_type)>>
            ELSE <<PanicFrame("Top-level response for {} is not an object or enum.")>>)

Calls(f) ==
    CASE f.fn = "Method::generate" -> Method_generate_calls(f.arg)
      [] f.fn = "Response::generate" -> Response_generate_calls(f.arg)
      [] f.fn = "get_obj_to_response_impl" -> <<Frame("has_ok", f.arg)>>
      [] f.fn = "get_enum_to_response_impl" -> get_enum_to_response_impl_calls(f.arg)
      [] f.fn = "to_string" -> to_string_calls(f.arg)
      [] f.fn = "to_code" -> to_code_calls(f.arg)
      [] f.fn = "obj_recur" -> obj_recur_calls(f.arg)
      [] f.fn = "has_ok" -> has_ok_calls(f.arg)
      [] f.fn = "panic!" -> <<>>

\* the imports every generated module starts with (generator.rs:15-22)
Header ==
    << [item |-> "use", path |-> "std::collections::HashMap"],
       [item |-> "use", path |-> "std::convert::From"],
       [item |-> "use", path |-> "std::error::Error"],
       [item |-> "use", path |-> "std::fmt"],
       [item |-> "use", path |-> "serde_json"],
       [item |-> "use", path |-> "::{ClientError, SlackWebRequestSender, ToResult}"] >>

\* ModuleText joining the texts of the methods last to first
ModuleText_Reversed(texts) ==
    Header \o Flatten([i \in DOMAIN texts |-> texts[Len(texts) + 1 - i]])

\* the text Module::generate returns (generator.rs:14-30): the imports, then
\* the collected texts of the methods joined
ModuleText(texts) == Header \o Flatten(texts)

(***************************************************************************)
(* The schema modules handed to the generator.                             *)
(***************************************************************************)
\* an Object that occurs three times below NestingResponse
Item == JsonObject("Item", <<OkField, ErrorField>>)

\* an Object whose fields nest declarations behind Array, Map and Optional
\* wrappers; two of its fields share the name "args", and one Object with
\* an ok field sits in a field of another Object
NestingResponse ==
    JsonObject("Nesting",
        << JsonObjectFieldInfo("ty", Some("type"), Arr(Item)),
           OkField,
           JsonObjectFieldInfo("args", None,
               Map(Optional(JsonEnum("Arg",
                   << JsonEnumVariant("Arg", <<"A">>, JsonObject("ArgA", <<ErrorField>>)),
                      JsonEnumVariant("Arg", <<"a">>, Arr(Item)),
                      JsonEnumVariant("Arg", <<"a", "A">>, Str) >>)))),
           ErrorField,
           JsonObjectFieldInfo("message", None,
               JsonObject("Wrap", << JsonObjectFieldInfo("args", None, Item) >>)),
           JsonObjectFieldInfo("OK", None, Bool),
           JsonObjectFieldInfo("args", None, Str) >>)

\* an Enum without variants
EmptyEnum == JsonEnum("Empty", <<>>)

Method(name, ps, response) ==
    [name |-> name, params |-> ps, response |-> response]

\* the methods a schema module is made of: the four methods of Methods under
\* names over Chars, a method whose response is a bare string, one whose
\* response is an Optional around an Object, the nesting Object and the
\* empty Enum
SchemaMethods ==
    << Method(<<"a", "a", ".", "a", "A">>, Methods[1].params, Methods[1].response),
       Method(<<"a", ".", "a", ".", "a">>, Methods[2].params, Methods[2].response),
       Method(<<"a", ".", "a", "a">>, Methods[3].params, Methods[3].response),
       Method(<<"a", ".", "a", "a", "A">>, Methods[4].params, Methods[4].response),
       Method(<<"a", "a", "a">>, <<>>,
              [schema |-> Str, errors |-> <<>>]),
       Method(<<"a", ".", "a", "A", "a">>, <<>>,
              [schema |-> Optional(PostMessageResponse), errors |-> <<ApiError(<<"a">>)>>]),
       Method(<<"a", ".", "a", "a", "a", "A">>, <<Param("count", "integer", TRUE)>>,
              [schema |-> NestingResponse, errors |-> <<ApiError(<<"a">>)>>]),
       Method(<<"a", ".", "a", "A", "a", "a">>, <<>>,
              [schema |-> EmptyEnum, errors |-> <<>>]) >>

RECURSIVE MethodLists(_)
MethodLists(n) ==
    IF n = 0 THEN {<<>>}
    ELSE LET shorter == MethodLists(n - 1)
         IN  shorter \cup {Append(ms, SchemaMethods[k]) :
                             ms \in shorter, k \in DOMAIN SchemaMethods}

Module(name, methods) == [name |-> name, methods |-> methods]

Modules == {Module("a", ms) : ms \in MethodLists(MaxMethods)}

NoModule == Module("", <<>>)

(***************************************************************************)
(* The generated callable (generator.rs:49-109).                           *)
(***************************************************************************)
Nothing == <<"None">>
NoProbe == [op |-> "none"]

\* HasToResultStage pushing the stage for Objects only
HasToResultStage_ObjOnly(m) ==
    LET response_type == Methods[m].response.schema
    IN  CASE response_type.kind = "Obj" -> ObjHasOk(response_type)
          [] response_type.kind = "Enum" -> FALSE

\* whether ".and_then(|o| o.to_result())" is pushed (generator.rs:70-74)
HasToResultStage(m) ==
    LET response_type == Methods[m].response.schema
    IN  CASE response_type.kind = "Obj" -> ObjHasOk(response_type)
          [] response_type.kind = "Enum" -> EnumHasOk(response_type)

\* the first argument of client.send (generator.rs:59, 65)
SendName(m) == Methods[m].name

\* serde_json::from_str::<Response>(&result).map_err(|_| MalformedResponse)
\* (generator.rs:62-63)
ParseResponse(m, text) ==
    IF ~text.json THEN Err(MalformedResponse)
    ELSE LET r == from_value(Methods[m].response.schema, text.payload)
         IN  IF IsOk(r) THEN r ELSE Err(MalformedResponse)

Init ==
    /\ pc = "idle"
    /\ method = 0
    /\ request = EmptyMap
    /\ params = EmptyMap
    /\ sendLog = <<>>
    /\ sendRes = Nothing
    /\ parsed = Nothing
    /\ result = Nothing
    /\ trace = <<>>
    /\ probe = NoProbe
    /\ gpc = "off"
    /\ module = NoModule
    /\ given = NoModule
    /\ cursor = 0
    /\ units = <<>>
    /\ generated = <<>>
    /\ panic = NoMsg
    /\ stack = <<>>
    /\ visits = 0

\* nothing is running: no invocation and no function applied on its own
Idle == pc = "idle" /\ probe = NoProbe /\ gpc = "off"

\* a caller invokes the callable of method m with a request
Invoke(m, req) ==
    /\ Idle
    /\ pc' = "called"
    /\ method' = m
    /\ request' = req
    /\ UNCHANGED <<params, sendLog, sendRes, parsed, result, trace, probe,
                 genVars>>

\* let mut params = HashMap::new(); {param_insertions} (generator.rs:86-87)
BuildParams ==
    /\ pc = "called"
    /\ params' = param_insertions(Methods[method].params, 1, request, EmptyMap)
    /\ trace' = Append(trace, "params")
    /\ pc' = "built"
    /\ UNCHANGED <<method, request, sendLog, sendRes, parsed, result, probe,
                 genVars>>

\* client.send(name, params) (generator.rs:59): the transport answers
Send(answer) ==
    /\ pc = "built"
    /\ sendLog' = Append(sendLog, [name |-> SendName(method), params |-> params])
    /\ sendRes' = answer
    /\ trace' = Append(trace, "send")
    /\ pc' = "sent"
    /\ UNCHANGED <<method, request, params, parsed, result, probe,
                 genVars>>

\* .map_err(|err| err.into()) (generator.rs:60): the chain ends
ClientFailure ==
    /\ pc = "sent"
    /\ IsErr(sendRes)
    /\ result' = Err(FromClientError(sendRes[2]))
    /\ pc' = "done"
    /\ UNCHANGED <<method, request, params, sendLog, sendRes, parsed, trace, probe,
                 genVars>>

\* .and_then(|result| serde_json::from_str(..)) (generator.rs:61-64)
Parse ==
    /\ pc = "sent"
    /\ IsOk(sendRes)
    /\ parsed' = ParseResponse(method, sendRes[2])
    /\ trace' = Append(trace, "parse")
    /\ pc' = "parsed"
    /\ UNCHANGED <<method, request, params, sendLog, sendRes, result, probe,
                 genVars>>

\* .and_then(|o| o.to_result()) (generator.rs:71-72)
ToResult ==
    /\ pc = "parsed"
    /\ IsOk(parsed)
    /\ HasToResultStage(method)
    /\ result' = to_result(Methods[method].response.errors,
                           Methods[method].response.schema, parsed[2])
    /\ trace' = Append(trace, "to_result")
    /\ pc' = "done"
    /\ UNCHANGED <<method, request, params, sendLog, sendRes, parsed, probe,
                 genVars>>

\* the chain's value is the callable's result
Return ==
    /\ pc = "parsed"
    /\ IsErr(parsed) \/ ~HasToResultStage(method)
    /\ result' = parsed
    /\ pc' = "done"
    /\ UNCHANGED <<method, request, params, sendLog, sendRes, parsed, trace, probe,
                 genVars>>

\* the caller takes the result; the next invocation starts afresh
Finish ==
    /\ pc = "done"
    /\ pc' = "idle"
    /\ method' = 0
    /\ request' = EmptyMap
    /\ params' = EmptyMap
    /\ sendLog' = <<>>
    /\ sendRes' = Nothing
    /\ parsed' = Nothing
    /\ result' = Nothing
    /\ trace' = <<>>
    /\ UNCHANGED <<probe, genVars>>

(***************************************************************************)
(* The generated functions applied on their own.                           *)
(***************************************************************************)
\* ErrorEnum::from(s)
Classify(m, s) ==
    /\ Idle
    /\ probe' = [op |-> "from", m |-> m, s |-> s,
                 out |-> FromStr(Methods[m].response.errors, s)]
    /\ UNCHANGED <<pc, method, request, params, sendLog, sendRes, parsed, result, trace,
                 genVars>>

\* v.to_result() for a value v of a type t that has the impl
ApplyToResult(m, t, v) ==
    /\ Idle
    /\ probe' = [op |-> "to_result", m |-> m, t |-> t, v |-> v,
                 out |-> to_result(Methods[m].response.errors, t, v)]
    /\ UNCHANGED <<pc, method, request, params, sendLog, sendRes, parsed, result, trace,
                 genVars>>

\* E::deserialize(payload)
Deserialize(e, payload) ==
    /\ Idle
    /\ probe' = [op |-> "deserialize", e |-> e, payload |-> payload,
                 out |-> deserialize(e, payload)]
    /\ UNCHANGED <<pc, method, request, params, sendLog, sendRes, parsed, result, trace,
                 genVars>>

Forget ==
    /\ probe # NoProbe
    /\ probe' = NoProbe
    /\ UNCHANGED <<pc, method, request, params, sendLog, sendRes, parsed, result, trace,
                 genVars>>

(***************************************************************************)
(* The shapes has_ok and the renderers are applied to on their own.        *)
(***************************************************************************)
\* the sequences of at most n members of S
RECURSIVE ListsUpTo(_, _)
ListsUpTo(S, n) ==
    IF n = 0 THEN {<<>>}
    ELSE LET shorter == ListsUpTo(S, n - 1)
         IN  shorter \cup {Append(l, x) : l \in shorter, x \in S}

\* an Enum whose variants hold the given inner shapes
EnumOf(name, inners) ==
    JsonEnum(name, [i \in DOMAIN inners |->
                       JsonEnumVariant(name, [k \in 1..i |-> "a"], inners[i])])

\* Objects with and without a field named ok, one of them with a field
\* named OK, one with ok and without error; a scalar; an Object with ok
\* behind each of the wrappers
VariantPayloads ==
    { Item,
      JsonObject("OkOnly", <<OkField>>),
      JsonObject("Upper", <<JsonObjectFieldInfo("OK", None, Bool), ErrorField>>),
      Str, Optional(Item), Arr(Item), Map(Item) }

FlatEnums == {EnumOf("Flat", inners) : inners \in ListsUpTo(VariantPayloads, MaxVariants)}

\* Enums whose first variant holds an Enum
DeepEnums ==
    {EnumOf("Deep", <<e>> \o rest) :
        e \in FlatEnums, rest \in ListsUpTo(VariantPayloads, MaxVariants - 1)}

\* every Object and Enum of a shape, itself included
RECURSIVE TypesIn(_)
TypesIn(t) ==
    CASE t.kind = "Obj" -> {t} \cup UNION {TypesIn(t.fields[i].ty) : i \in DOMAIN t.fields}
      [] t.kind = "Enum" ->
            {t} \cup UNION {TypesIn(t.variants[i].inner) : i \in DOMAIN t.variants}
      [] t.kind \in {"Optional", "Arr", "Map"} -> TypesIn(t.inner)
      [] OTHER -> {}

\* Objects of at most MaxFields scalar fields, two of the fields sharing
\* the name "args" and one named in upper case
ScalarFields ==
    { OkField, ErrorField,
      JsonObjectFieldInfo("OK", None, Bool),
      JsonObjectFieldInfo("args", None, Str),
      JsonObjectFieldInfo("args", Some("type"), Bool) }

FlatObjects == {JsonObject("Flat", fs) : fs \in ListsUpTo(ScalarFields, MaxFields)}

Shapes ==
    FlatEnums \cup DeepEnums \cup FlatObjects
    \cup UNION {TypesIn(SchemaMethods[k].response.schema) : k \in DOMAIN SchemaMethods}
    \cup UNION {TypesIn(p) : p \in VariantPayloads}

\* t.has_ok() for an Object or Enum t
HasOk(t) ==
    /\ Idle
    /\ probe' = [op |-> "has_ok", t |-> t, out |-> has_ok(t)]
    /\ UNCHANGED <<pc, method, request, params, sendLog, sendRes, parsed, result,
                   trace, genVars>>

\* o.to_string() for an Object o
RenderObject(o) ==
    /\ Idle
    /\ probe' = [op |-> "to_string", t |-> o, out |-> JsonObject_to_string(o)]
    /\ UNCHANGED <<pc, method, request, params, sendLog, sendRes, parsed, result,
                   trace, genVars>>

\* e.to_code() for an Enum e
RenderEnum(e) ==
    /\ Idle
    /\ probe' = [op |-> "to_code", t |-> e, out |-> JsonEnum_to_code(e)]
    /\ UNCHANGED <<pc, method, request, params, sendLog, sendRes, parsed, result,
                   trace, genVars>>

\* the codes of the error lists description is applied with: two of them
\* differ in case only, one in a leading separator only
ErrorCodes == {<<"a">>, <<"A">>, <<"_", "a">>, <<"a", "a">>, <<"a", "A">>}

ErrorLists == ListsUpTo({ApiError(c) : c \in ErrorCodes}, MaxErrors)

\* the values of the error enum emitted for a list of errors
ErrorValues(errors) ==
    {Declared(to_pascal_case(errors[i].name)) : i \in DOMAIN errors}
    \cup {MalformedResponse}
    \cup {Unknown(s) : s \in StringsUpTo(MaxCodeLen)}
    \cup {Client(e) : e \in ClientErrors}

\* Error::from(s).description()
DescribeClassified(errors, s) ==
    /\ Idle
    /\ probe' = [op |-> "from.description", errors |-> errors, s |-> s,
                 out |-> description(errors, FromStr(errors, s))]
    /\ UNCHANGED <<pc, method, request, params, sendLog, sendRes, parsed, result,
                   trace, genVars>>

\* err.description() and err.cause() for a value err of the error enum
Describe(errors, err) ==
    /\ Idle
    /\ probe' = [op |-> "description", errors |-> errors, err |-> err,
                 out |-> description(errors, err), cause |-> cause(err)]
    /\ UNCHANGED <<pc, method, request, params, sendLog, sendRes, parsed, result,
                   trace, genVars>>

\* get_obj_to_response_impl(o, error_type) for an Object o
SynthesizeObjFacade(o) ==
    /\ Idle
    /\ probe' = [op |-> "obj_to_response_impl", t |-> o,
                 out |-> get_obj_to_response_impl(o, "Error")]
    /\ UNCHANGED <<pc, method, request, params, sendLog, sendRes, parsed, result,
                   trace, genVars>>

\* get_enum_to_response_impl(e, error_type) for an Enum e
SynthesizeFacade(e) ==
    /\ Idle
    /\ probe' = [op |-> "to_response_impl", t |-> e,
                 out |-> get_enum_to_response_impl(e, "Error")]
    /\ UNCHANGED <<pc, method, request, params, sendLog, sendRes, parsed, result,
                   trace, genVars>>

(***************************************************************************)
(* The hand-written client (src/lib.rs:69-106, src/api.rs:24-46).  A body  *)
(* is text that parses as JSON or does not; a JSON text is an object with  *)
(* members, or an array, a string, a boolean or null.                      *)
(***************************************************************************)
\* a JSON object or number standing as the value of a member
JObject == [k |-> "obj", b |-> FALSE, s |-> <<>>]

Body(json, top, members) == [json |-> json, top |-> top, members |-> members]

\* the members of the bodies: ok, the two spellings of the error member,
\* and the args of api.test
BodyMembers ==
    [ok : {JAbsent, JNull, JBool(TRUE), JBool(FALSE), JStr(<<"true">>)},
     err : {JAbsent, JStr(<<"some_error">>)},
     error : {JAbsent, JStr(<<"some_error">>), JBool(TRUE)},
     args : {JAbsent, JObject, JStr(<<"a">>)}]

NoMembers == [ok |-> JAbsent, err |-> JAbsent, error |-> JAbsent, args |-> JAbsent]

Bodies ==
    {Body(FALSE, "", NoMembers)}
    \cup {Body(TRUE, top, NoMembers) : top \in {"array", "string", "boolean", "null"}}
    \cup {Body(TRUE, "object", ms) : ms \in BodyMembers}

\* what client.get(url).send() yields: an error of the transport, or a
\* response whose body can be read or not
HttpAnswers ==
    {Err(e) : e \in ClientErrors}
    \cup {Ok([readable |-> r, body |-> b]) : r \in BOOLEAN, b \in Bodies}

\* the errors of the client, by the step they come from
ApiFailure(from, msg) == Err([from |-> from, msg |-> msg])

\* Json::as_object (lib.rs:94)
as_object(body) == IF body.top = "object" THEN Some(body.members) ELSE None

\* as_boolean taking the string "true" for the boolean
as_boolean_Lenient(jv) ==
    IF jv.k = "bool" THEN Some(jv.b)
    ELSE IF jv = JStr(<<"true">>) THEN Some(TRUE) ELSE None

\* Json::as_boolean (lib.rs:99)
as_boolean(jv) == IF jv.k = "bool" THEN Some(jv.b) ELSE None

\* json::decode::<ApiTestResponse> (lib.rs:105, api.rs:41-45): both fields
\* are Options, of a string and of a map
decode(body) ==
    LET ms == body.members
        field(jv, kind) ==
            IF jv.k \in {"absent", "null"} THEN Ok(None)
            ELSE IF jv.k = kind THEN Ok(Some(jv))
            ELSE ApiFailure("decode", <<>>)
        error == field(ms.error, "str")
        args == field(ms.args, "obj")
    IN  IF ~body.json \/ body.top # "object" THEN ApiFailure("decode", <<>>)
        ELSE IF IsErr(error) THEN error
        ELSE IF IsErr(args) THEN args
        ELSE Ok([error |-> error[2], args |-> args[2]])

\* transform_api_result (lib.rs:89-106)
transform_api_result(res) ==
    IF ~res.readable THEN ApiFailure("read_to_string", <<>>)
    ELSE IF ~res.body.json THEN ApiFailure("from_str", <<>>)
    ELSE IF as_object(res.body) = None
    THEN ApiFailure("api", <<"bad slack json response (not an object)">>)
    ELSE LET jobj == as_object(res.body)[1]
             ok == Get(jobj, "ok")
         IN  IF ok = JAbsent
             THEN ApiFailure("api", <<"slack json reponse does not contain \"ok\" field">>)
             ELSE IF as_boolean(ok) = None
             THEN ApiFailure("api", <<"slack json reponse \"ok\" is not a boolean">>)
             ELSE IF ~as_boolean(ok)[1]
             THEN ApiFailure("api", <<"slack json reponse \"ok\" is not true">>)
             ELSE decode(res.body)

\* make_api_call (lib.rs:71-79): try!(client.get(url).send()), then
\* transform_api_result
make_api_call(answer) ==
    IF IsErr(answer) THEN ApiFailure("send", answer[2])
    ELSE transform_api_result(answer[2])

\* api::test (api.rs:29-38) against a transport that answers with answer
ApiTest(error, answer) ==
    /\ Idle
    /\ probe' = [op |-> "api.test",
                 url |-> [method |-> "api.test",
                          query |-> IF error # None THEN <<<<"error", error[1]>>>> ELSE <<>>],
                 answer |-> answer,
                 out |-> make_api_call(answer)]
    /\ UNCHANGED <<pc, method, request, params, sendLog, sendRes, parsed, result,
                   trace, genVars>>

(***************************************************************************)
(* One run of the generator on a schema module.                            *)
(***************************************************************************)
\* Method::generate takes &self, and JsonObject::to_string sorts a clone of
\* the fields (generator.rs:49, 549-550): the method is as it was
AfterGenerate_SortedInPlace(m) ==
    IF m.response.schema.kind = "Obj"
    THEN [m EXCEPT !.response.schema.fields = sort_by_key(m.response.schema.fields)]
    ELSE m

AfterGenerate(m) == m

\* a schema module is read
LoadModule(mod) ==
    /\ Idle
    /\ gpc' = "loaded"
    /\ module' = mod
    /\ given' = mod
    /\ UNCHANGED <<cursor, units, generated, panic, stack, visits>>
    /\ UNCHANGED <<pc, method, request, params, sendLog, sendRes, parsed, result,
                   trace, probe>>

\* Module::generate is called (generator.rs:13): the iterator stands before
\* the first method, nothing is collected
ModuleGenerate ==
    /\ gpc \in {"loaded", "generated"}
    /\ Len(generated) < MaxRuns
    /\ gpc' = "mapping"
    /\ cursor' = 0
    /\ units' = <<>>
    /\ UNCHANGED <<module, given, generated, panic, stack, visits>>
    /\ UNCHANGED <<pc, method, request, params, sendLog, sendRes, parsed, result,
                   trace, probe>>

\* .map(Method::generate) goes on to the next method (generator.rs:25-26)
MethodEnter ==
    /\ gpc = "mapping"
    /\ cursor < Len(module.methods)
    /\ stack = <<>>
    /\ visits = 0
    /\ stack' = <<Frame("Method::generate", module.methods[cursor + 1])>>
    /\ UNCHANGED <<gpc, module, given, cursor, units, generated, panic, visits>>
    /\ UNCHANGED <<pc, method, request, params, sendLog, sendRes, parsed, result,
                   trace, probe>>

\* the activation on top of the stack runs: the activations it starts take
\* its place; a panic unwinds every activation
Visit ==
    /\ gpc = "mapping"
    /\ stack # <<>>
    /\ stack' = IF Head(stack).fn = "panic!" THEN <<>>
                ELSE Calls(Head(stack)) \o Tail(stack)
    /\ visits' = visits + 1
    /\ UNCHANGED <<gpc, module, given, cursor, units, generated, panic>>
    /\ UNCHANGED <<pc, method, request, params, sendLog, sendRes, parsed, result,
                   trace, probe>>

\* Method::generate is over: its text is collected, or the panic unwinds
\* the run and drops what was collected
MethodGenerate ==
    /\ gpc = "mapping"
    /\ cursor < Len(module.methods)
    /\ stack = <<>>
    /\ visits > 0
    /\ visits' = 0
    /\ LET text == Method_generate(module.methods[cursor + 1])
       IN  /\ cursor' = cursor + 1
           /\ module' = [module EXCEPT !.methods[cursor + 1] = AfterGenerate(@)]
           /\ IF text.panicked
              THEN /\ gpc' = "panicked"
                   /\ panic' = text.msg
                   /\ units' = <<>>
              ELSE /\ units' = Append(units, text.val)
                   /\ UNCHANGED <<gpc, panic>>
    /\ UNCHANGED <<given, generated, stack>>
    /\ UNCHANGED <<pc, method, request, params, sendLog, sendRes, parsed, result,
                   trace, probe>>

\* .collect::<Vec<String>>().join("\n") inside the format! (generator.rs:14-29):
\* Module::generate returns the text
ModuleJoin ==
    /\ gpc = "mapping"
    /\ cursor = Len(module.methods)
    /\ generated' = Append(generated, ModuleText(units))
    /\ gpc' = "generated"
    /\ UNCHANGED <<module, given, cursor, units, panic, stack, visits>>
    /\ UNCHANGED <<pc, method, request, params, sendLog, sendRes, parsed, result,
                   trace, probe>>

\* the run is over: the generator exits, or the panic has ended it
Unload ==
    /\ gpc \in {"generated", "panicked"}
    /\ gpc' = "off"
    /\ module' = NoModule
    /\ given' = NoModule
    /\ cursor' = 0
    /\ units' = <<>>
    /\ generated' = <<>>
    /\ panic' = NoMsg
    /\ UNCHANGED <<stack, visits>>
    /\ UNCHANGED <<pc, method, request, params, sendLog, sendRes, parsed, result,
                   trace, probe>>

Next ==
    \/ Idle /\ \E m \in MethodIds : \E req \in Requests(m) : Invoke(m, req)
    \/ BuildParams
    \/ pc = "built" /\ \E e \in ClientErrors : Send(Err(e))
    \/ pc = "built" /\ \E text \in WireTexts : Send(Ok(text))
    \/ ClientFailure
    \/ Parse
    \/ ToResult
    \/ Return
    \/ Finish
    \/ Idle /\ \E m \in MethodIds : \E s \in StringsUpTo(MaxCodeLen) : Classify(m, s)
    \/ Idle /\ \E m \in MethodIds : \E t \in FacadeTypes(Methods[m].response.schema) :
          \E v \in Values(t) : ApplyToResult(m, t, v)
    \/ Idle /\ \E e \in Enums : \E payload \in Payloads : Deserialize(e, payload)
    \/ Forget
    \/ Idle /\ \E t \in Shapes : HasOk(t)
    \/ Idle /\ \E o \in {t \in Shapes : t.kind = "Obj"} : RenderObject(o)
    \/ Idle /\ \E e \in {t \in Shapes : t.kind = "Enum"} : RenderEnum(e)
    \/ Idle /\ \E errors \in ErrorLists : \E s \in StringsUpTo(MaxCodeLen) :
          DescribeClassified(errors, s)
    \/ Idle /\ \E errors \in ErrorLists : \E err \in ErrorValues(errors) :
          Describe(errors, err)
    \/ Idle /\ \E o \in {t \in Shapes : t.kind = "Obj"} : SynthesizeObjFacade(o)
    \/ Idle /\ \E e \in {t \in Shapes : t.kind = "Enum"} : SynthesizeFacade(e)
    \/ Idle /\ \E error \in {None, Some(<<"some_error">>)} :
          \E answer \in HttpAnswers : ApiTest(error, answer)
    \/ Idle /\ \E mod \in Modules : LoadModule(mod)
    \/ ModuleGenerate
    \/ MethodEnter
    \/ Visit
    \/ MethodGenerate
    \/ ModuleJoin
    \/ Unload

Spec == Init /\ [][Next]_vars

\* the generator alone: a run of Module::generate goes on, one step after
\* the other, until it returns or panics; nothing makes the caller load a
\* module, call generate again or exit
GenNext ==
    \/ Idle /\ \E mod \in Modules : LoadModule(mod)
    \/ ModuleGenerate
    \/ MethodEnter
    \/ Visit
    \/ MethodGenerate
    \/ ModuleJoin
    \/ Unload

\* MethodGenerate can be taken: it sets visits to 0, so it is a step that
\* changes the state wherever its guard holds
MethodOver ==
    gpc = "mapping" /\ cursor < Len(module.methods) /\ stack = <<>> /\ visits > 0

\* Visit can be taken: it counts the activation, so it is a step that
\* changes the state wherever its guard holds
Visiting == gpc = "mapping" /\ stack # <<>>

\* weak fairness of the four steps of a run; that of Visit and that of
\* MethodGenerate are written out, with Visiting for ENABLED <<Visit>>_vars
\* and MethodOver for ENABLED <<MethodGenerate>>_vars
GenSpec ==
    Init /\ [][GenNext]_vars
    /\ WF_vars(MethodEnter) /\ WF_vars(ModuleJoin)
    /\ ([]<>~Visiting \/ []<><<Visit>>_vars)
    /\ ([]<>~MethodOver \/ []<><<MethodGenerate>>_vars)

(***************************************************************************)
(* Properties.                                                             *)
(***************************************************************************)
DeclaredNames(errors) == {errors[i].name : i \in DOMAIN errors}

\* what the spec says of from(s): the declared variant named after s when s
\* is a declared code, Unknown(s) otherwise
Classified(errors, s, e) ==
    IF s \in DeclaredNames(errors)
    THEN e = Declared(to_pascal_case(s))
    ELSE e = Unknown(s)

\* what the spec says of to_result on an Object with an ok field
ObjFacadeContract(errors, v, out) ==
    /\ v.f["ok"] => out = Ok(v)
    /\ ~v.f["ok"] /\ v.f["error"] # None =>
          IsErr(out) /\ Classified(errors, v.f["error"][1], out[2])
    /\ ~v.f["ok"] /\ v.f["error"] = None => out = Err(MalformedResponse)

\* C1: to_result on a value of a generated Object type with an ok field
\* returns Ok of the unchanged object when ok is true, whatever error holds;
\* Err of the classified error code when ok is false and error is Some(code);
\* Err(MalformedResponse) when ok is false and error is None.
C1_ObjToResult ==
    probe.op = "to_result" /\ probe.t.kind = "Obj" =>
        ObjFacadeContract(Methods[probe.m].response.errors, probe.v, probe.out)

C1_Witness ==
    /\ probe.op = "to_result"
    /\ probe.t.kind = "Obj"
    /\ ~probe.v.f["ok"]
    /\ probe.v.f["error"] = Some(<<"a", "a">>)
    /\ probe.out = Err(Declared(<<"A", "a">>))

\* C2: to_result on a value V(payload) of a has-ok Enum is Ok exactly when
\* the payload's own to_result is Ok; on success it is the same variant V
\* wrapping the inner result, on failure it is the inner error unchanged; at
\* every nesting depth.
C2_EnumToResult ==
    probe.op = "to_result" /\ probe.t.kind = "Enum" =>
        LET errors == Methods[probe.m].response.errors
            variant == CHOOSE x \in {probe.t.variants[i] : i \in DOMAIN probe.t.variants} :
                           x.qualified_name = probe.v.variant
            inner == to_result(errors, variant.inner, probe.v.inner)
        IN  /\ IsOk(probe.out) <=> IsOk(inner)
            /\ IsOk(inner) => probe.out = Ok(EnumV(probe.v.variant, inner[2]))
            /\ IsErr(inner) => probe.out = inner

\* a success two enums deep, in a variant that is not the first
C2_Witness ==
    /\ probe.op = "to_result"
    /\ probe.t.kind = "Enum"
    /\ probe.v.inner.kind = "EnumV"
    /\ probe.v.inner.inner.kind = "ObjV"
    /\ probe.v.variant[2] = <<"A", "a">>
    /\ probe.v.inner.variant[2] = <<"A", "a">>
    /\ IsOk(probe.out)
    /\ probe.out[2] = probe.v

\* C3: from(s) is the declared variant whose ApiError name equals s exactly,
\* and Unknown(s) with s unchanged for every other string; it is never
\* MalformedResponse or Client.
C3_Classifier ==
    probe.op = "from" =>
        /\ Classified(Methods[probe.m].response.errors, probe.s, probe.out)
        /\ probe.out.tag \notin {"MalformedResponse", "Client"}

\* a case variant of a declared code is unknown
C3_Witness ==
    /\ probe.op = "from"
    /\ <<"a", "a">> \in DeclaredNames(Methods[probe.m].response.errors)
    /\ probe.s = <<"A", "a">>
    /\ probe.out = Unknown(<<"A", "a">>)

\* the steps of one invocation, in the order of the emitted body
Steps == <<"params", "send", "parse", "to_result">>
IsPrefix(a, b) == Len(a) <= Len(b) /\ \A i \in DOMAIN a : a[i] = b[i]
Done(step) == \E i \in DOMAIN trace : trace[i] = step

\* C4: an invocation builds the parameter map, calls send exactly once with
\* the method's full dotted name and that map, parses only after send
\* succeeded, applies to_result only after parsing succeeded and only when
\* the top-level response type has-ok; after a transport failure nothing
\* else happens, and a top-level Object without ok is returned as parsed.
C4_StepOrder ==
    /\ IsPrefix(trace, Steps)
    /\ Len(sendLog) = (IF Done("send") THEN 1 ELSE 0)
    /\ Done("send") =>
          sendLog[1] = [name |-> Methods[method].name, params |-> params]
    /\ Done("parse") => IsOk(sendRes)
    /\ Done("to_result") =>
          IsOk(parsed) /\ has_ok(Methods[method].response.schema)
    /\ pc = "done" =>
          /\ Done("params") /\ Done("send")
          /\ Done("parse") <=> IsOk(sendRes)
          /\ Done("to_result") <=>
                IsOk(parsed) /\ has_ok(Methods[method].response.schema)
          /\ IsOk(parsed) /\ ~has_ok(Methods[method].response.schema) =>
                result = parsed

\* an Enum response went through all four steps
C4_Witness ==
    /\ pc = "done"
    /\ Methods[method].response.schema.kind = "Enum"
    /\ trace = Steps
    /\ IsOk(result)

\* the object that carries the ok flag of a response value
RECURSIVE Leaf(_)
Leaf(v) == IF v.kind = "EnumV" THEN Leaf(v.inner) ELSE v

\* the values of the method's error enum
IsErrorOf(m, e) ==
    \/ e.tag \in {"MalformedResponse", "Unknown", "Client"}
    \/ /\ e.tag = "Declared"
       /\ \E n \in DeclaredNames(Methods[m].response.errors) :
             e.arg = to_pascal_case(n)

\* C5: every failure of the callable is a value of the method's error enum:
\* a transport failure e gives Client(e), text that does not parse gives
\* MalformedResponse, a parsed has-ok response with ok false gives the
\* classified variant, Unknown(code) or MalformedResponse; the result is Ok
\* only when send and parsing succeeded and, for a has-ok type, ok is true.
C5_TypedFailures ==
    pc = "done" =>
        LET m == method
            schema == Methods[m].response.schema
            errors == Methods[m].response.errors
        IN  /\ IsOk(result) \/ (IsErr(result) /\ IsErrorOf(m, result[2]))
            /\ IsErr(sendRes) => result = Err(Client(sendRes[2]))
            /\ IsOk(sendRes) /\ ~sendRes[2].json => result = Err(MalformedResponse)
            /\ IsOk(sendRes) /\ sendRes[2].json
                  /\ IsErr(from_value(schema, sendRes[2].payload)) =>
                  result = Err(MalformedResponse)
            /\ IsOk(parsed) /\ has_ok(schema) /\ ~Leaf(parsed[2]).f["ok"] =>
                  /\ IsErr(result)
                  /\ IF Leaf(parsed[2]).f["error"] = None
                     THEN result[2] = MalformedResponse
                     ELSE Classified(errors, Leaf(parsed[2]).f["error"][1], result[2])
            /\ IsOk(result) =>
                  /\ IsOk(sendRes)
                  /\ IsOk(parsed)
                  /\ has_ok(schema) => Leaf(parsed[2]).f["ok"]

\* an Enum response whose payload says ok false with an undeclared code
C5_Witness ==
    /\ pc = "done"
    /\ Methods[method].response.schema.kind = "Enum"
    /\ IsOk(parsed)
    /\ result = Err(Unknown(<<"A">>))

\* C6: the keys of the parameter map handed to the transport are the names
\* of the required parameters and of the optional parameters whose request
\* field is Some.
C6_ParamKeys ==
    Done("send") =>
        LET ps == Methods[method].params
        IN  DOMAIN sendLog[1].params =
                {ps[i].name : i \in {j \in DOMAIN ps : ~ps[j].optional}}
                \cup {ps[i].name : i \in {j \in DOMAIN ps :
                                            ps[j].optional /\ request[ps[j].name].val # None}}

\* an absent optional boolean beside a present optional string
C6_Witness ==
    /\ Done("send")
    /\ Methods[method].name = "chat.postMessage"
    /\ request["as_user"].val = None
    /\ request["icon_emoji"].val # None
    /\ DOMAIN sendLog[1].params = {"channel", "icon_emoji"}

\* the number a string of decimal digits denotes
DigitValue(c) == CHOOSE d \in 0..9 : Digit(d) = c
RECURSIVE DecimalValue(_)
DecimalValue(s) ==
    IF Len(s) = 0 THEN 0
    ELSE 10 * DecimalValue(SubSeq(s, 1, Len(s) - 1)) + DigitValue(s[Len(s)])

IsDecimal(s, n) ==
    /\ Len(s) >= 1
    /\ \A i \in DOMAIN s : \E d \in 0..9 : s[i] = Digit(d)
    /\ Len(s) > 1 => s[1] # "0"
    /\ DecimalValue(s) = n

\* C7: the value of a parameter's entry is decided by the type tag alone:
\* "boolean" gives "1" or "0", "integer" the decimal string, every other tag
\* the string unchanged, the same for the optional and the required form;
\* the request field's type follows the same classification of the tag.
C7_ParamValues ==
    Done("send") =>
        \A i \in DOMAIN Methods[method].params :
            LET p == Methods[method].params[i]
                sent == sendLog[1].params
                field == request[p.name]
                x == IF p.optional THEN field.val[1] ELSE field.val
                FieldType(ty) == IF p.optional THEN "Option<" \o ty \o ">" ELSE ty
            IN  /\ CASE p.ty = "boolean" -> field.ty = FieldType("bool")
                     [] p.ty = "integer" -> field.ty = FieldType("u32")
                     [] OTHER -> field.ty = FieldType("String")
                /\ p.name \in DOMAIN sent =>
                      CASE p.ty = "boolean" ->
                              sent[p.name] = (IF x THEN <<"1">> ELSE <<"0">>)
                        [] p.ty = "integer" -> IsDecimal(sent[p.name], x)
                        [] OTHER -> sent[p.name] = x

\* a required integer of two digits beside an optional parameter of an
\* unrecognized type
C7_Witness ==
    /\ Done("send")
    /\ Methods[method].name = "api.test"
    /\ request["count"].val = 10
    /\ sendLog[1].params["count"] = <<"1", "0">>
    /\ request["latest"] = [ty |-> "Option<String>", val |-> Some(<<"A", "_">>)]
    /\ sendLog[1].params["latest"] = <<"A", "_">>

\* the discriminator of a payload, as the spec names the field
Discriminator(e, payload) ==
    Get(payload, IF e.name = "Message" THEN "subtype" ELSE "type")

\* the wire tags of an enum's variants, in declared order
WireTagsOf(e) == [i \in DOMAIN e.variants |-> to_snake_case(e.variants[i].name)]
TagIsDeclared(e, s) == \E i \in DOMAIN e.variants : WireTagsOf(e)[i] = s
FirstWithTag(e, s) ==
    CHOOSE i \in DOMAIN e.variants :
        /\ WireTagsOf(e)[i] = s
        /\ \A j \in DOMAIN e.variants : WireTagsOf(e)[j] = s => i <= j

\* C8 as stated: a payload whose discriminator is a string equal to the wire
\* tag t of a declared variant always constructs variant t, whatever its
\* other fields.
C8_AlwaysConstructs ==
    probe.op = "deserialize" =>
        LET d == Discriminator(probe.e, probe.payload)
        IN  d.k = "str" /\ TagIsDeclared(probe.e, d.s) =>
                /\ IsOk(probe.out)
                /\ \E i \in DOMAIN probe.e.variants :
                      /\ WireTagsOf(probe.e)[i] = d.s
                      /\ probe.out[2].variant = probe.e.variants[i].qualified_name

\* C8 amended: such a payload is always dispatched to the first declared
\* variant whose wire tag is t, whatever its other fields: the result is
\* that variant wrapping the payload parsed as the variant's inner type, or,
\* when the payload does not parse as that type, the custom error carrying
\* the inner failure; never another variant, never another condition.
C8_Dispatch ==
    probe.op = "deserialize" =>
        LET d == Discriminator(probe.e, probe.payload)
        IN  d.k = "str" /\ TagIsDeclared(probe.e, d.s) =>
                LET variant == probe.e.variants[FirstWithTag(probe.e, d.s)]
                    inner == from_value(variant.inner, probe.payload)
                IN  IF IsOk(inner)
                    THEN probe.out = Ok(EnumV(variant.qualified_name, inner[2]))
                    ELSE probe.out = Err(custom(inner[2]))

\* the tag "aa" with every other field present constructs the second variant
C8_Witness ==
    /\ probe.op = "deserialize"
    /\ probe.e.name = "Message"
    /\ probe.payload.subtype = JStr(<<"a", "a">>)
    /\ probe.payload.type = JStr(<<"_">>)
    /\ probe.payload.error = JStr(<<"a">>)
    /\ probe.payload.ok = JBool(FALSE)
    /\ IsOk(probe.out)
    /\ probe.out[2].variant = <<"Message", <<"A", "a">>>>

\* C9: a payload without the discriminator field fails with the
\* missing-field condition and yields no variant; one whose discriminator is
\* present but no string fails with the invalid-type condition; only a
\* string discriminator reaches the matching of variants.
C9_CheckOrder ==
    probe.op = "deserialize" =>
        LET d == Discriminator(probe.e, probe.payload)
        IN  /\ d.k = "absent" =>
                  IsErr(probe.out) /\ probe.out[2].cond = "missing_field"
            /\ d.k \notin {"absent", "str"} =>
                  IsErr(probe.out) /\ probe.out[2].cond = "invalid_type"
            /\ IsOk(probe.out) \/ probe.out[2].cond \in {"unknown_variant", "custom"} =>
                  d.k = "str"

\* no subtype, though the payload's type is the tag of a variant
C9_Witness ==
    /\ probe.op = "deserialize"
    /\ probe.e.name = "Message"
    /\ probe.payload.subtype = JAbsent
    /\ probe.payload.type = JStr(<<"a">>)
    /\ probe.payload.ok = JBool(TRUE)
    /\ IsErr(probe.out)
    /\ probe.out[2].cond = "missing_field"

\* C10: a discriminator string that equals no declared wire tag fails with
\* the unknown-variant condition, carrying the received tag and all declared
\* wire tags in declared order; a variant is constructed only on an exact,
\* case-sensitive match of the whole string.
C10_UnknownVariant ==
    probe.op = "deserialize" =>
        LET d == Discriminator(probe.e, probe.payload)
        IN  /\ d.k = "str" /\ ~TagIsDeclared(probe.e, d.s) =>
                  probe.out = Err(unknown_variant(d.s, WireTagsOf(probe.e)))
            /\ IsOk(probe.out) =>
                  \E i \in DOMAIN probe.e.variants :
                      /\ d.s = WireTagsOf(probe.e)[i]
                      /\ probe.out[2].variant = probe.e.variants[i].qualified_name

\* a case variant of a declared tag, and a prefix of another
C10_Witness ==
    /\ probe.op = "deserialize"
    /\ probe.e.name = "Message"
    /\ probe.payload.subtype = JStr(<<"A">>)
    /\ probe.payload.ok = JBool(TRUE)
    /\ probe.out = Err(unknown_variant(<<"A">>, << <<"a">>, <<"a", "a">> >>))

\* the methods of the loaded module the generator has been through
Mapped == 1..cursor

\* the response of a method is an Object or an Enum at the top level
TopLevelRenders(m) == m.response.schema.kind \in {"Obj", "Enum"}

\* the name of the response type of a method: its last dotted segment in
\* upper camel case, then "Response"
ResponseTypeName(m) == Text(to_pascal_case(LastSegment(m.name))) \o "Response"

\* C11: when the generator comes to a method whose top-level response shape
\* is neither an Object nor an Enum, the run is aborted at that method with
\* an error that names the response type derived from the method's name;
\* no text is kept for that method or for the methods before it, none is
\* returned by Module::generate, and the aborted run does nothing more.
C11_TopLevelAborts ==
    /\ [](\A i \in Mapped :
            gpc # "off" /\ ~TopLevelRenders(module.methods[i]) =>
                /\ gpc = "panicked"
                /\ cursor = i
                /\ \A j \in 1..(i - 1) : TopLevelRenders(module.methods[j])
                /\ panic.text =
                     "Top level response schema for {} is not an object or enum. {:?}"
                /\ panic.args = <<ResponseTypeName(module.methods[i]),
                                  module.methods[i].response.schema>>
                /\ units = <<>>
                /\ generated = <<>>)
    /\ [][gpc = "panicked" => gpc' = "off" /\ generated' = <<>>]_vars

\* a bare-string response in second place stops a run that had collected
\* the text of the first method
C11_Witness ==
    /\ gpc = "panicked"
    /\ cursor = 2
    /\ module.methods[2].response.schema = Str
    /\ TopLevelRenders(module.methods[1])
    /\ units = <<>>
    /\ generated = <<>>

\* the response of a method is an Enum at the top level that does not
\* have-ok
TopLevelEnumWithoutOk(m) ==
    m.response.schema.kind = "Enum" /\ ~has_ok(m.response.schema)

\* C12: a method whose top-level response shape is an Enum that does not
\* have-ok is fatal to the run: when the generator has come to it the run is
\* aborted and no callable has been emitted for it.
C12_EnumWithoutOkAborts ==
    \A i \in Mapped :
        gpc # "off" /\ TopLevelEnumWithoutOk(module.methods[i]) =>
            /\ gpc = "panicked"
            /\ units = <<>>
            /\ generated = <<>>

Unit(m) == Method_generate(m).val

\* the units of the methods ms[i], ms[i + 1], ... one after the other
RECURSIVE UnitsFrom(_, _)
UnitsFrom(ms, i) ==
    IF i > Len(ms) THEN <<>> ELSE Unit(ms[i]) \o UnitsFrom(ms, i + 1)

\* C14: the text Module::generate returns is the import header followed by
\* the units of the module's methods in declared order, each unit being the
\* text its method yields on its own; while the run is going, the texts
\* collected so far are the units of the methods gone through, in order.
C14_HeaderThenUnits ==
    /\ gpc = "mapping" =>
          /\ Len(units) = cursor
          /\ \A i \in DOMAIN units : units[i] = Unit(module.methods[i])
    /\ \A k \in DOMAIN generated :
          /\ SubSeq(generated[k], 1, Len(Header)) = Header
          /\ SubSeq(generated[k], Len(Header) + 1, Len(generated[k])) =
                UnitsFrom(module.methods, 1)

\* Module::generate has returned the text of a module of two methods whose
\* units differ
C14_Witness ==
    /\ gpc = "generated"
    /\ generated # <<>>
    /\ Len(module.methods) = 2
    /\ Unit(module.methods[1]) # Unit(module.methods[2])
    /\ Unit(module.methods[1]) # <<>>

\* what the spec asks of a body for the call to succeed: a JSON object whose
\* ok member is the boolean true and which holds nothing the response type
\* of api.test cannot take
BodyIsSuccess(body) ==
    /\ body.json
    /\ body.top = "object"
    /\ body.members.ok = JBool(TRUE)
    /\ body.members.error.k \in {"absent", "null", "str"}
    /\ body.members.args.k \in {"absent", "null", "obj"}

FieldNames(o) == {o.fields[i].name : i \in DOMAIN o.fields}

\* the shapes that end the descent from an Enum through variants alone
RECURSIVE VariantLeaves(_)
VariantLeaves(t) ==
    IF t.kind = "Enum"
    THEN UNION {VariantLeaves(t.variants[i].inner) : i \in DOMAIN t.variants}
    ELSE {t}

\* C16: an Object has-ok exactly when one of its fields is named "ok", case
\* and all; an Enum has-ok exactly when every shape reached from it through
\* variants alone is an Object with such a field, so that a variant holding a
\* scalar, an Array, a Map or an Optional denies it whatever they wrap, and
\* an Enum without variants has-ok.
C16_HasOk ==
    probe.op = "has_ok" =>
        /\ probe.t.kind = "Obj" => (probe.out <=> "ok" \in FieldNames(probe.t))
        /\ probe.t.kind = "Enum" =>
              /\ probe.out <=>
                    \A l \in VariantLeaves(probe.t) :
                        l.kind = "Obj" /\ "ok" \in FieldNames(l)
              /\ probe.t.variants = <<>> => probe.out
              /\ (\E i \in DOMAIN probe.t.variants :
                     probe.t.variants[i].inner.kind \notin {"Obj", "Enum"}) => ~probe.out

\* has_ok has denied an Enum whose only variant holds an Optional around an
\* Object that has-ok
C16_Witness ==
    /\ probe.op = "has_ok"
    /\ probe.t.kind = "Enum"
    /\ Len(probe.t.variants) = 1
    /\ probe.t.variants[1].inner = Optional(Item)
    /\ has_ok(Item)
    /\ ~probe.out

\* the declarations of rendered Objects in a text
ObjectDecls(text) ==
    {i \in DOMAIN text :
        text[i].item = "struct" /\ text[i].derive = "Clone, Debug, Deserialize"}

\* C17: a payload without an ok member that parses as a value whose Object
\* is of a generated type with an ok field gives that Object ok = false, and
\* the callable does not report success for it: its result is the classified
\* error when the payload holds an error code and MalformedResponse when it
\* holds none.  In every rendered Object the fields ok and error, and no
\* others, are not public.
C17_OmittedOk ==
    /\ pc = "done" /\ IsOk(sendRes) /\ sendRes[2].json
          /\ Get(sendRes[2].payload, "ok") = JAbsent
          /\ IsOk(parsed) /\ "ok" \in DOMAIN Leaf(parsed[2]).f =>
              /\ Leaf(parsed[2]).f["ok"] = FALSE
              /\ IsErr(result)
              /\ IF Get(sendRes[2].payload, "error").k = "str"
                 THEN Classified(Methods[method].response.errors,
                                 Get(sendRes[2].payload, "error").s, result[2])
                 ELSE result[2] = MalformedResponse
    /\ \A u \in DOMAIN units : \A i \in ObjectDecls(units[u]) :
          \A k \in DOMAIN units[u][i].fields :
              LET f == units[u][i].fields[k]
              IN  f.prefix = "pub" <=> f.name \notin {"ok", "error"}

\* C18: the field declarations of a rendered Object are the declared fields
\* rearranged, one declaration for each declared field, in ascending order
\* of name whatever the declared order, fields of the same name keeping
\* their declared order.
C18_FieldsSorted ==
    probe.op = "to_string" =>
        LET declared == probe.t.fields
            rendered == probe.out[1].fields
            n == Len(declared)
        IN  /\ probe.out[1].item = "struct"
            /\ probe.out[1].name = probe.t.name
            /\ Len(rendered) = n
            /\ \E from \in Permutations(1..n) :
                  /\ \A k \in 1..n :
                        rendered[k] = JsonObjectFieldInfo_to_string(declared[from[k]])
                  /\ \A k, l \in 1..n :
                        k < l =>
                            /\ NameLeq(declared[from[k]].name, declared[from[l]].name)
                            /\ declared[from[k]].name = declared[from[l]].name =>
                                  from[k] < from[l]

\* an Object declaring the two args fields with ok between them has been
\* rendered: the first args stays before the second and ok goes behind both
C18_Witness ==
    /\ probe.op = "to_string"
    /\ Len(probe.t.fields) = 3
    /\ probe.t.fields[1] = JsonObjectFieldInfo("args", Some("type"), Bool)
    /\ probe.t.fields[2] = OkField
    /\ probe.t.fields[3] = JsonObjectFieldInfo("args", None, Str)
    /\ probe.out[1].fields[1].rename = Some("type")
    /\ probe.out[1].fields[2].rename = None
    /\ probe.out[1].fields[3].name = "ok"

\* the shape behind the Array, Map and Optional wrappers of a property
RECURSIVE Unwrapped(_)
Unwrapped(t) ==
    IF t.kind \in {"Arr", "Map", "Optional"} THEN Unwrapped(t.inner) ELSE t

\* the properties of an Object or Enum: the types of its fields, or the
\* payloads of its variants, in declared order
Properties(t) ==
    IF t.kind = "Obj" THEN [i \in DOMAIN t.fields |-> t.fields[i].ty]
    ELSE [i \in DOMAIN t.variants |-> t.variants[i].inner]

\* the occurrences of Objects and Enums in and below an Object or Enum t:
\* each a path of property numbers, the empty path being t itself
RECURSIVE Occurrences(_)
Occurrences(t) ==
    {<<>>} \cup
    UNION {{<<i>> \o p : p \in Occurrences(Unwrapped(Properties(t)[i]))} :
              i \in {j \in DOMAIN Properties(t) :
                        Unwrapped(Properties(t)[j]).kind \in {"Obj", "Enum"}}}

RECURSIVE TypeAt(_, _)
TypeAt(t, p) ==
    IF p = <<>> THEN t ELSE TypeAt(Unwrapped(Properties(t)[Head(p)]), Tail(p))

\* depth-first order of occurrences: a parent before what it holds, an
\* earlier property and all it holds before a later one
RECURSIVE Before(_, _)
Before(p, q) ==
    IF p = <<>> THEN q # <<>>
    ELSE IF q = <<>> THEN FALSE
    ELSE IF Head(p) # Head(q) THEN Head(p) < Head(q)
    ELSE Before(Tail(p), Tail(q))

\* the declarations of Objects and Enums in a text, in the order of the text
RECURSIVE TypeDecls(_)
TypeDecls(text) ==
    IF text = <<>> THEN <<>>
    ELSE (IF Head(text).item \in {"struct", "enum"} THEN <<Head(text)>> ELSE <<>>)
         \o TypeDecls(Tail(text))

\* C19: the text rendered for an Object or Enum holds the parent's own
\* declaration first and then one declaration for every occurrence of an
\* Object or Enum reachable from it through fields, variants and chains of
\* Array, Map and Optional wrappers, in depth-first order following the
\* declared order of fields and variants; a shape occurring several times
\* is declared as many times.
C19_NestedDeclarations ==
    probe.op \in {"to_string", "to_code"} =>
        LET decls == TypeDecls(probe.out)
            occs == Occurrences(probe.t)
        IN  /\ Len(decls) = Cardinality(occs)
            /\ decls[1].name = probe.t.name
            /\ \A p \in occs :
                  LET k == 1 + Cardinality({q \in occs : Before(q, p)})
                      t == TypeAt(probe.t, p)
                  IN  /\ decls[k].name = t.name
                      /\ decls[k].item = (IF t.kind = "Obj" THEN "struct" ELSE "enum")
                      /\ t.kind = "Obj" => Len(decls[k].fields) = Len(t.fields)
                      /\ t.kind = "Enum" => Len(decls[k].variants) = Len(t.variants)

\* the nesting Object has been rendered: the Object Item, which occurs in it
\* behind an Array, behind a Map of Optional of an Enum's Array variant and
\* in a field of a nested Object, is declared three times
C19_Witness ==
    /\ probe.op = "to_string"
    /\ probe.t = NestingResponse
    /\ Cardinality({p \in Occurrences(probe.t) : TypeAt(probe.t, p) = Item}) = 3
    /\ Cardinality({k \in DOMAIN probe.out :
                       probe.out[k].item = "struct" /\ probe.out[k].name = "Item"}) = 3

\* the names of the types a text holds a to_result impl for
FacadeNames(text) ==
    {text[i].name : i \in {j \in DOMAIN text : text[j].item = "impl ToResult"}}

\* the response type of a method as the generator resolves it
ResponseType(m) == from_schema(m.response.schema, ResponseTypeName(m))

RECURSIVE Nodes(_)
Nodes(t) ==
    CASE t.kind = "Obj" -> 1 + Len(Flatten([i \in DOMAIN t.fields |->
                                    [k \in 1..Nodes(t.fields[i].ty) |-> 0]]))
      [] t.kind = "Enum" -> 1 + Len(Flatten([i \in DOMAIN t.variants |->
                                    [k \in 1..Nodes(t.variants[i].inner) |-> 0]]))
      [] t.kind \in {"Optional", "Arr", "Map"} -> 1 + Nodes(t.inner)
      [] t.kind = "panic" -> 0
      [] OTHER -> 1

\* the shapes of a tree, the tree itself among them
RECURSIVE SubShapes(_)
SubShapes(t) ==
    CASE t.kind = "Obj" -> {t} \cup UNION {SubShapes(t.fields[i].ty) : i \in DOMAIN t.fields}
      [] t.kind = "Enum" ->
            {t} \cup UNION {SubShapes(t.variants[i].inner) : i \in DOMAIN t.variants}
      [] t.kind \in {"Optional", "Arr", "Map"} -> {t} \cup SubShapes(t.inner)
      [] OTHER -> {t}

\* the longest chain of Enums, each the payload of a variant of the one before
RECURSIVE EnumChain(_)
EnumChain(t) ==
    LET below(S) == IF S = {} THEN 0 ELSE CHOOSE n \in S : \A k \in S : k <= n
    IN  CASE t.kind = "Obj" -> below({EnumChain(t.fields[i].ty) : i \in DOMAIN t.fields})
          [] t.kind = "Enum" ->
                1 + below({EnumChain(t.variants[i].inner) : i \in DOMAIN t.variants})
          [] t.kind \in {"Optional", "Arr", "Map"} -> EnumChain(t.inner)
          [] OTHER -> 0

\* the place of a function in the order in which the functions call each
\* other on one and the same shape
Rank(fn) ==
    CASE fn = "Method::generate" -> 6
      [] fn = "Response::generate" -> 5
      [] fn \in {"get_obj_to_response_impl", "get_enum_to_response_impl"} -> 4
      [] fn = "obj_recur" -> 3
      [] fn \in {"to_string", "to_code"} -> 2
      [] fn = "has_ok" -> 1
      [] fn = "panic!" -> 0

\* the shape an activation works on
Shape(f) == IF f.fn = "Method::generate" THEN ShapeOf(f.arg) ELSE f.arg

\* the activations a step has put on the stack
Started == SubSeq(stack', 1, Len(stack') + 1 - Len(stack))

\* the method Module::generate is at
Current == module.methods[cursor + 1]

\* the messages of the panics of the generator
SchemaErrors ==
    { "Top level response schema for {} is not an object or enum. {:?}",
      "Top-level response for {} is not an object or enum.",
      "Top-level enum inner object did not have \"ok\" field.",
      "Top-level enum inner variant did not have \"ok\" field.",
      "Top-level enum is does not contain a type that can have an \"ok\" field." }

\* C21: a run of Module::generate on a schema module ends: it returns the
\* text of all its methods, or it panics with a message about the schema.
\* Inside one method no more activations run than a bound that the nodes of
\* the response's tree and its chain of Enums give: at most five functions
\* and one has_ok per Enum above a node, the method and its response's
\* generate, and one panic.  Every activation a function starts works on a
\* shape of the caller's tree; where it works on the caller's own shape it
\* is another function, lower in the order of the calls, so that a function
\* reaches itself again only on a shape strictly inside.
C21_Terminates ==
    /\ (gpc = "mapping") ~> (gpc \in {"generated", "panicked"})
    /\ [](/\ gpc = "generated" =>
               /\ Len(units) = Len(module.methods)
               /\ generated[Len(generated)] = ModuleText(units)
          /\ gpc = "panicked" => panic.text \in SchemaErrors
          /\ gpc = "mapping" /\ cursor < Len(module.methods) =>
               visits <= 3 + Nodes(ShapeOf(Current)) * (5 + EnumChain(ShapeOf(Current))))
    /\ [][gpc = "mapping" /\ stack # <<>> /\ stack' # <<>> =>
            \A i \in DOMAIN Started :
                LET f == Head(stack)
                    g == Started[i]
                IN  g.fn # "panic!" =>
                        /\ Shape(g) \in SubShapes(Shape(f))
                        /\ Shape(g) = Shape(f) => Rank(g.fn) < Rank(f.fn)
                        /\ Nodes(Shape(g)) <= Nodes(Shape(f))
                        /\ g.fn = f.fn => Nodes(Shape(g)) < Nodes(Shape(f))]_vars

\* a run has gone through a method whose response nests Enums and Objects
\* behind wrappers, and has returned the text
C21_Witness ==
    /\ gpc = "generated"
    /\ \E i \in DOMAIN module.methods :
          /\ module.methods[i].response.schema = NestingResponse
          /\ EnumChain(NestingResponse) = 1
          /\ Nodes(NestingResponse) > 10

\* the message of the panic of Response::generate
NotObjectOrEnum == "Top level response schema for {} is not an object or enum. {:?}"

\* C22: get_enum_to_response_impl panics for no Enum, with or without ok in
\* its variants, nested or not: it returns an impl when the Enum has ok and
\* None otherwise.  A run of the generator that panics does so with the
\* message of Response::generate only, and the one panic an activation ever
\* arrives at is that of Response::generate: the second check of
\* Method::generate is waiting behind it and is unwound with it.
C22_AbortPathsUnreachable ==
    /\ probe.op = "to_response_impl" =>
            /\ ~probe.out.panicked
            /\ probe.out.val # None <=> has_ok(probe.t)
    /\ gpc = "panicked" => panic.text = NotObjectOrEnum
    /\ stack # <<>> /\ Head(stack).fn = "panic!" =>
            /\ Head(stack).arg.text = NotObjectOrEnum
            /\ Len(stack) > 1
            /\ stack[2] = PanicFrame("Top-level response for {} is not an object or enum.")
    /\ \A i \in DOMAIN stack :
            stack[i].fn = "panic!" =>
                stack[i].arg.text \in {NotObjectOrEnum,
                                       "Top-level response for {} is not an object or enum."}

\* the impl of an Enum with ok whose first variant holds an Enum has been
\* synthesized
C22_Witness ==
    /\ probe.op = "to_response_impl"
    /\ probe.t.name = "Deep"
    /\ Len(probe.t.variants) > 1
    /\ has_ok(probe.t)
    /\ probe.out.val # None

\* a run has arrived at the panic of Response::generate, the second check
\* of Method::generate behind it
C22_WitnessRun ==
    /\ gpc = "mapping"
    /\ stack # <<>>
    /\ Head(stack).fn = "panic!"

\* the field that discriminates the variants of an Enum
DiscriminatorField(e) == IF e.name = "Message" THEN "subtype" ELSE "type"

\* the Deserialize impls of a rendered text
DeserializeImpls(text) ==
    {text[i] : i \in {j \in DOMAIN text : text[j].item = "impl Deserialize"}}

\* the first half of C23: the emitted deserializer of an Enum looks up
\* subtype when the Enum is named Message and type otherwise, and a payload
\* without that field fails as missing a field whatever its other fields
C23_FieldRead ==
    /\ probe.op = "to_code" =>
            \A impl \in DeserializeImpls(probe.out) :
                impl.variant_field = "subtype" <=> impl.name = "Message"
    /\ probe.op = "to_code" =>
            \A impl \in DeserializeImpls(probe.out) :
                impl.variant_field \in {"subtype", "type"}
    /\ probe.op = "deserialize"
        /\ Get(probe.payload, DiscriminatorField(probe.e)).k = "absent" =>
            IsErr(probe.out) /\ probe.out[2].cond = "missing_field"

\* C23: the emitted deserializer of an Enum looks up subtype when the Enum is
\* named Message and type otherwise, and the missing-field failure names the
\* field that was looked up: in the emitted text the two names are the same,
\* and a payload without the field fails with the field's name.
C23_MissingFieldNamesDiscriminator ==
    /\ C23_FieldRead
    /\ probe.op = "to_code" =>
            \A impl \in DeserializeImpls(probe.out) :
                impl.missing_field = impl.variant_field
    /\ probe.op = "deserialize" /\ IsErr(probe.out)
        /\ probe.out[2].cond = "missing_field" =>
            probe.out[2].field = DiscriminatorField(probe.e)

\* the second half of C23 for the Enums that are not named Message
C23_OtherEnums ==
    /\ probe.op = "to_code" =>
            \A impl \in DeserializeImpls(probe.out) :
                impl.name # "Message" => impl.missing_field = impl.variant_field
    /\ probe.op = "deserialize" /\ IsErr(probe.out) /\ probe.e.name # "Message"
        /\ probe.out[2].cond = "missing_field" =>
            probe.out[2].field = DiscriminatorField(probe.e)

\* the impls of to_result that read fields of self: those of Objects
ObjFacades(text) ==
    {text[i] : i \in {j \in DOMAIN text : /\ text[j].item = "impl ToResult"
                                           /\ text[j].reads # <<>>}}

\* the fields an impl reads
Reads(impl) == {impl.reads[i] : i \in DOMAIN impl.reads}

\* the part of C24 about ok: an Object that gets an impl declares the field
\* ok, and the impl reads it
C24_OkDeclared ==
    probe.op = "obj_to_response_impl" /\ probe.out # None =>
        \A impl \in ObjFacades(probe.out[1]) :
            "ok" \in Reads(impl) /\ "ok" \in FieldNames(probe.t)

\* C24: every field the to_result impl of an Object reads is a field the
\* Object declares, so an Object that gets an impl declares ok and error;
\* this for the impl get_obj_to_response_impl yields for an Object, for the
\* impls of the payloads of an Enum's variants, and for the impls in the
\* text of a module next to the structs they are for.
C24_FacadeReadsDeclared ==
    /\ probe.op = "obj_to_response_impl" /\ probe.out # None =>
            /\ \A impl \in ObjFacades(probe.out[1]) : Reads(impl) \subseteq FieldNames(probe.t)
            /\ {"ok", "error"} \subseteq FieldNames(probe.t)
    /\ probe.op = "to_response_impl" /\ ~probe.out.panicked /\ probe.out.val # None =>
            \A impl \in ObjFacades(probe.out.val[1]) :
                \A o \in TypesIn(probe.t) :
                    o.kind = "Obj" /\ o.name = impl.name =>
                        Reads(impl) \subseteq FieldNames(o)
    /\ \A r \in DOMAIN generated :
            \A impl \in ObjFacades(generated[r]) :
                \E i \in DOMAIN generated[r] :
                    /\ generated[r][i].item = "struct"
                    /\ generated[r][i].name = impl.name
                    /\ Reads(impl) \subseteq
                          {generated[r][i].fields[k].name : k \in DOMAIN generated[r][i].fields}

\* the codes of a list of errors map to pairwise distinct variants
DistinctVariants(errors) ==
    \A i, j \in DOMAIN errors :
        i # j => to_pascal_case(errors[i].name) # to_pascal_case(errors[j].name)

\* C25: where the codes of a method's errors map to pairwise distinct
\* variants, the description of the classified string s is s itself, for a
\* declared code (not the text that documents the error) and for any other
\* string; the description of a declared variant is the code it stands for,
\* that of Unknown(s) is s, that of MalformedResponse the fixed text, that of
\* Client(e) the description of e; cause is Some(e) for Client(e) and None
\* for every other variant.
C25_DescriptionIsCode ==
    /\ probe.op = "from.description" /\ DistinctVariants(probe.errors) =>
            probe.out = probe.s
    /\ probe.op = "description" =>
            /\ probe.err.tag = "Declared" /\ DistinctVariants(probe.errors) =>
                    /\ probe.out \in DeclaredNames(probe.errors)
                    /\ to_pascal_case(probe.out) = probe.err.arg
            /\ probe.err.tag = "Unknown" => probe.out = probe.err.arg
            /\ probe.err.tag = "MalformedResponse" =>
                    probe.out = <<"Malformed response data from Slack.">>
            /\ probe.err.tag = "Client" =>
                    probe.out = ClientError_description(probe.err.arg)
            /\ probe.cause # None <=> probe.err.tag = "Client"
            /\ probe.err.tag = "Client" => probe.cause = Some(probe.err.arg)

\* a declared code whose variant is spelled otherwise is classified and
\* described by the code
C25_Witness ==
    /\ probe.op = "from.description"
    /\ Len(probe.errors) = 2
    /\ DistinctVariants(probe.errors)
    /\ probe.s = <<"_", "a">>
    /\ probe.s \in DeclaredNames(probe.errors)
    /\ FromStr(probe.errors, probe.s) = Declared(<<"A">>)
    /\ probe.out = <<"_", "a">>

\* C25 without its premise: two codes of one variant
C25_AnyErrors ==
    probe.op = "from.description" => probe.out = probe.s

====
